---- MODULE Spec2Model ----
(***************************************************************************)
(* backtest_kline_trajectory.py: FastPerpetualExchange (the margin ledger, *)
(* the tiered maintenance margin, forced liquidation, the resting order    *)
(* lists and their matching), FastPerpetualStrategy, VolatilityMonitor and *)
(* the candle loop of the backtest.                                        *)
(*                                                                         *)
(* Numbers.  The program computes with decimal.Decimal.  Here a quantity   *)
(* is a whole number of lots of STRATEGY_CONFIG["min_order_amount"], a     *)
(* price is the price of one lot, and every price and every amount of      *)
(* money is a fixed-point number with DecScale units per USDT (1 unit =    *)
(* 0.0001 USDT, the finest step of the configured fee and margin rates).   *)
(* Sums, differences and quantity*price products are exact; a division or  *)
(* a product with a rate rounds half-even to one unit, as Decimal does at  *)
(* the end of its precision.                                               *)
(*                                                                         *)
(* Time.  A timestamp is in seconds, as in the program, counted from       *)
(* TimeOrigin (2021-01-01T00:00:00Z, Unix 1609459200) instead of from 1970 *)
(* so that the instants after Unix 2147483647, which process_fee_rebate    *)
(* tells apart, are numbers the model can hold.                            *)
(***************************************************************************)
EXTENDS Integers, Sequences, FiniteSets, TLC

VARIABLES ex, strategy, run, last, prev, steps

vars == <<ex, strategy, run, last, prev, steps>>

----------------------------------------------------------------------------
(* Decimal arithmetic *)

DecScale == 10000

Infinity == -1

Abs(x) == IF x < 0 THEN -x ELSE x

Min(a, b) == IF a <= b THEN a ELSE b

Max(a, b) == IF a >= b THEN a ELSE b

\* quotient q with remainder r (0 <= r < b) rounded half-even
HalfEven(q, r, b) ==
    IF 2 * r < b THEN q
    ELSE IF 2 * r > b THEN q + 1
    ELSE IF q % 2 = 0 THEN q ELSE q + 1

\* Decimal division a / b, b > 0
DecDiv(a, b) == HalfEven(a \div b, a % b, b)

\* Decimal product of an amount of money x with a rate of rate/DecScale
MulRate(x, rate) ==
    LET n == (x \div DecScale) * rate
        m == (x % DecScale) * rate
    IN  HalfEven(n + (m \div DecScale), m % DecScale, DecScale)

\* value <= threshold, value in units, threshold in whole USDT or Infinity
LeqThreshold(value, threshold) ==
    \/ threshold = Infinity
    \/ value \div DecScale < threshold
    \/ value \div DecScale = threshold /\ value % DecScale = 0

\* the largest number held; a product beyond it is held as MaxInt and one
\* below -MaxInt as -MaxInt, which compare with every number in range as
\* the product does
MaxInt == 2147483647

\* Decimal product x * n, n > 0
MulInt(x, n) ==
    IF x > MaxInt \div n THEN MaxInt
    ELSE IF x < -(MaxInt \div n) THEN -MaxInt
    ELSE x * n

----------------------------------------------------------------------------
(* Configuration *)

\* (notional bound USDT, max leverage, maintenance rate /DecScale, subtrahend USDT)
ETH_USDC_TIERS ==
    << <<50000, 125, 40, 0>>,
       <<500000, 100, 50, 50>>,
       <<1000000, 75, 65, 800>>,
       <<5000000, 50, 100, 4300>>,
       <<50000000, 20, 200, 54300>>,
       <<100000000, 10, 500, 1554300>>,
       <<150000000, 5, 1000, 6554300>>,
       <<300000000, 4, 1250, 10304300>>,
       <<400000000, 3, 1500, 17804300>>,
       <<500000000, 2, 2500, 57804300>>,
       <<Infinity, 1, 5000, 182804300>> >>

\* Unix time of the instant the timestamps count from
TimeOrigin == 1609459200

\* the Unix timestamp 0, e.g. of FastPerpetualStrategy.last_order_time
UnixZero == 0 - TimeOrigin

InitialBalance == 700

Leverage == 125

TakerFee == 5

\* maker fee rates a run is configured with: 0.0000 and 0.02%
MakerFees == {0, 2}

\* REBATE_CONFIG
UseFeeRebate == FALSE

RebateRate == 3000

RebatePayoutDay == 19

\* STRATEGY_CONFIG; rates are in 1/DecScale, amounts in lots
UseDynamicOrderSize == TRUE

MinOrderAmount == 1

\* 999.0 / 0.009 lots
MaxOrderAmount == 111000

MaxPositionValueRatio == 1

OrderRefreshTime == 15

PositionStopLoss == 500

EnablePositionStopLoss == FALSE

\* RISK_CONFIG
MaxDrawdown == 3000

MinEquity == 300

\* VOLATILITY_CONFIG
EnableVolatilityAdaptive == TRUE

AtrPeriod == 1440

HighVolatilityThreshold == 3000

ExtremeVolatilityThreshold == 5000

PositionBalanceRatio == 8000

MaxImbalanceRatio == 3000

BaseSpread == 20

MaxSpreadMultiplier == 3

SpreadAdjustmentFactor == 2

----------------------------------------------------------------------------
(* VolatilityMonitor.  The candle values are floats in the program; here   *)
(* they are the same fixed-point numbers as the prices.                    *)

\* VolatilityMonitor.__init__
VolatilityMonitorOf(atr_period) ==
    [atr_period |-> atr_period, price_history |-> <<>>, atr_values |-> <<>>]

\* VolatilityMonitor(VOLATILITY_CONFIG["atr_period"])
NewVolatilityMonitor == VolatilityMonitorOf(AtrPeriod)

true_range(current, previous) ==
    Max(current.high - current.low,
        Max(Abs(current.high - previous.close), Abs(current.low - previous.close)))

RECURSIVE sum_true_ranges(_, _)
\* sum of the true ranges of the entries i..Len(price_history)
sum_true_ranges(price_history, i) ==
    IF i > Len(price_history) THEN 0
    ELSE true_range(price_history[i], price_history[i - 1])
           + sum_true_ranges(price_history, i + 1)

calculate_atr(m) ==
    IF Len(m.price_history) < 2 THEN m
    ELSE LET atr == DecDiv(sum_true_ranges(m.price_history, 2),
                           Len(m.price_history) - 1)
             atr_values == Append(m.atr_values, atr)
         IN  [m EXCEPT !.atr_values =
                 IF Len(atr_values) > 100 THEN Tail(atr_values) ELSE atr_values]

\* variant: a full history drops the entry that arrives
update_price_drops_newest(m, timestamp, high, low, close) ==
    LET appended == Append(m.price_history,
                           [timestamp |-> timestamp, high |-> high,
                            low |-> low, close |-> close])
        m1 == [m EXCEPT !.price_history =
                  IF Len(appended) > m.atr_period + 1
                  THEN SubSeq(appended, 1, Len(appended) - 1) ELSE appended]
    IN  IF Len(m1.price_history) >= 2 THEN calculate_atr(m1) ELSE m1

update_price(m, timestamp, high, low, close) ==
    LET appended == Append(m.price_history,
                           [timestamp |-> timestamp, high |-> high,
                            low |-> low, close |-> close])
        m1 == [m EXCEPT !.price_history =
                  IF Len(appended) > m.atr_period + 1 THEN Tail(appended) ELSE appended]
    IN  IF Len(m1.price_history) >= 2 THEN calculate_atr(m1) ELSE m1

\* get_current_atr_percentage() >= float(threshold) * 100, the threshold a
\* rate in 1/DecScale: ATR / close * 100 against the percentage, compared as
\* ATR against that fraction of the close
atr_percentage_reaches(m, threshold) ==
    IF m.atr_values = <<>> \/ m.price_history = <<>> THEN 0 >= threshold
    ELSE LET current_atr == m.atr_values[Len(m.atr_values)]
             current_price == m.price_history[Len(m.price_history)].close
         IN  IF current_price > 0
             THEN current_atr >= MulRate(current_price, threshold)
             ELSE 0 >= threshold

get_volatility_level(m) ==
    IF atr_percentage_reaches(m, ExtremeVolatilityThreshold) THEN "EXTREME"
    ELSE IF atr_percentage_reaches(m, HighVolatilityThreshold) THEN "HIGH"
    ELSE "NORMAL"

should_reduce_exposure(m) == get_volatility_level(m) \in {"HIGH", "EXTREME"}

----------------------------------------------------------------------------
(* FastPerpetualExchange: queries *)

get_net_position(e) == e.long_position - e.short_position

get_position_value(e) ==
    e.long_position * e.current_price + e.short_position * e.current_price

get_net_position_value(e) == Abs(get_net_position(e)) * e.current_price

get_unrealized_pnl(e) ==
    (IF e.long_position > 0
        THEN e.long_position * (e.current_price - e.long_entry_price) ELSE 0)
  + (IF e.short_position > 0
        THEN e.short_position * (e.short_entry_price - e.current_price) ELSE 0)

get_equity(e) == e.balance + get_unrealized_pnl(e)

RECURSIVE TierScan(_, _)
\* index of the first tier from i on whose bound is >= value, 0 if none
TierScan(value, i) ==
    IF i > Len(ETH_USDC_TIERS) THEN 0
    ELSE IF LeqThreshold(value, ETH_USDC_TIERS[i][1]) THEN i
    ELSE TierScan(value, i + 1)

\* variant: the tier is looked up by the net notional
get_current_leverage_tier_by_net(e) ==
    LET i == TierScan(get_net_position_value(e), 1)
    IN  IF i = 0 THEN ETH_USDC_TIERS[Len(ETH_USDC_TIERS)] ELSE ETH_USDC_TIERS[i]

get_current_leverage_tier(e) ==
    LET i == TierScan(get_position_value(e), 1)
    IN  IF i = 0 THEN ETH_USDC_TIERS[Len(ETH_USDC_TIERS)] ELSE ETH_USDC_TIERS[i]

get_current_max_leverage(e) == get_current_leverage_tier(e)[2]

update_current_leverage(e) ==
    [e EXCEPT !.current_leverage = Min(get_current_max_leverage(e), e.base_leverage)]

\* variant: the maintenance margin is taken on the gross notional
get_maintenance_margin_on_gross(e) ==
    LET net_position_value == get_position_value(e)
        i == TierScan(net_position_value, 1)
    IN  IF i = 0 THEN 0
        ELSE MulRate(net_position_value, ETH_USDC_TIERS[i][3])
               - ETH_USDC_TIERS[i][4] * DecScale

get_maintenance_margin(e) ==
    LET net_position_value == get_net_position_value(e)
        i == TierScan(net_position_value, 1)
    IN  IF i = 0 THEN 0
        ELSE MulRate(net_position_value, ETH_USDC_TIERS[i][3])
               - ETH_USDC_TIERS[i][4] * DecScale

get_used_margin(e) ==
    LET effective_leverage == Min(get_current_max_leverage(e), e.base_leverage)
        total_position_value == e.long_position * e.long_entry_price
                                  + e.short_position * e.short_entry_price
    IN  IF effective_leverage = 0 THEN 0
        ELSE DecDiv(total_position_value, effective_leverage)

get_available_margin(e) == get_equity(e) - get_used_margin(e)

----------------------------------------------------------------------------
(* Dates: a pandas Timestamp is [year, month, day, second of the day].     *)

\* last_payout_date before the first process_fee_rebate
None == [year |-> 0, month |-> 0, day |-> 0, second |-> 0]

SecondsPerDay == 86400

\* the civil date of the day that is z days after 0000-03-01
civil_from_days(z) ==
    LET era == z \div 146097
        doe == z - era * 146097
        yoe == (doe - doe \div 1460 + doe \div 36524 - doe \div 146096) \div 365
        doy == doe - (365 * yoe + yoe \div 4 - yoe \div 100)
        mp == (5 * doy + 2) \div 153
        d == doy - (153 * mp + 2) \div 5 + 1
        m == IF mp < 10 THEN mp + 3 ELSE mp - 9
        y == yoe + era * 400 + (IF m <= 2 THEN 1 ELSE 0)
    IN  [year |-> y, month |-> m, day |-> d]

\* pd.to_datetime(timestamp, unit='s')
to_datetime(timestamp) ==
    LET date == civil_from_days(719468 + TimeOrigin \div SecondsPerDay
                                  + timestamp \div SecondsPerDay)
    IN  [year |-> date.year, month |-> date.month, day |-> date.day,
         second |-> timestamp % SecondsPerDay]

is_leap_year(year) ==
    year % 4 = 0 /\ (year % 100 # 0 \/ year % 400 = 0)

days_in_month(year, month) ==
    IF month = 2 THEN (IF is_leap_year(year) THEN 29 ELSE 28)
    ELSE IF month \in {4, 6, 9, 11} THEN 30 ELSE 31

\* date + pd.DateOffset(months=months), months one of 1 and -1
DateOffset(date, months) ==
    LET month0 == date.month - 1 + months
        year == IF month0 < 0 THEN date.year - 1
                ELSE IF month0 > 11 THEN date.year + 1 ELSE date.year
        month == IF month0 < 0 THEN 12 ELSE IF month0 > 11 THEN 1 ELSE month0 + 1
    IN  [date EXCEPT !.year = year, !.month = month,
                     !.day = Min(date.day, days_in_month(year, month))]

\* a < b for two Timestamps
date_before(a, b) ==
    \/ a.year < b.year
    \/ a.year = b.year /\ a.month < b.month
    \/ a.year = b.year /\ a.month = b.month /\ a.day < b.day
    \/ a.year = b.year /\ a.month = b.month /\ a.day = b.day /\ a.second < b.second

----------------------------------------------------------------------------
(* FastPerpetualExchange: operations.  REBATE_CONFIG["use_fee_rebate"] is  *)
(* False; a run of SpecRebate is configured with True.                     *)

\* variant: the anchor is the payout day of the current month in any case
first_payout_date_this_month(current_date, payout_day) ==
    [current_date EXCEPT !.day = payout_day, !.second = 0]

\* the last payout date before current_date
first_payout_date(current_date, payout_day) ==
    LET start_date_payout == [current_date EXCEPT !.day = payout_day, !.second = 0]
    IN  IF date_before(current_date, start_date_payout)
        THEN DateOffset(start_date_payout, -1)
        ELSE start_date_payout

\* variant: the payout is due only after the payout instant
payout_due_after(current_date, next_payout_date) ==
    date_before(next_payout_date, current_date)

\* current_date >= next_payout_date
payout_due(current_date, next_payout_date) ==
    ~date_before(current_date, next_payout_date)

\* variant: no bound on the timestamp
process_fee_rebate_unbounded(e, timestamp) ==
    IF ~e.use_fee_rebate THEN e
    ELSE LET current_date == to_datetime(timestamp)
             payout_day == e.rebate_payout_day
         IN  IF e.last_payout_date = None
             THEN [e EXCEPT !.last_payout_date =
                                first_payout_date(current_date, payout_day)]
             ELSE LET next_payout_date == DateOffset(e.last_payout_date, 1)
                  IN  IF payout_due(current_date, next_payout_date)
                      THEN LET rebate_amount ==
                                   MulRate(e.current_cycle_fees, e.rebate_rate)
                               e1 == IF rebate_amount > 0
                                     THEN [e EXCEPT !.balance = @ + rebate_amount,
                                                    !.current_cycle_fees = 0]
                                     ELSE e
                           IN  [e1 EXCEPT !.last_payout_date = next_payout_date]
                      ELSE e

process_fee_rebate(e, timestamp) ==
    IF ~e.use_fee_rebate THEN e
    ELSE IF timestamp > 2147483647 - TimeOrigin THEN e
    ELSE LET current_date == to_datetime(timestamp)
             payout_day == e.rebate_payout_day
         IN  IF e.last_payout_date = None
             THEN [e EXCEPT !.last_payout_date =
                                first_payout_date(current_date, payout_day)]
             ELSE LET next_payout_date == DateOffset(e.last_payout_date, 1)
                  IN  IF payout_due(current_date, next_payout_date)
                      THEN LET rebate_amount ==
                                   MulRate(e.current_cycle_fees, e.rebate_rate)
                               e1 == IF rebate_amount > 0
                                     THEN [e EXCEPT !.balance = @ + rebate_amount,
                                                    !.current_cycle_fees = 0]
                                     ELSE e
                           IN  [e1 EXCEPT !.last_payout_date = next_payout_date]
                      ELSE e

\* variant: the fee does not enter the cycle
add_cycle_fee_uncounted(e, fee, timestamp) ==
    IF e.use_fee_rebate THEN process_fee_rebate(e, timestamp) ELSE e

\* if self.use_fee_rebate: current_cycle_fees += fee; process_fee_rebate
add_cycle_fee(e, fee, timestamp) ==
    IF e.use_fee_rebate
    THEN process_fee_rebate([e EXCEPT !.current_cycle_fees = @ + fee], timestamp)
    ELSE e

\* the rebate_amount that "self.balance += rebate_amount" adds when a fee
\* is taken on e: nothing else in add_cycle_fee touches the balance
rebate_credited(e, fee, timestamp) ==
    add_cycle_fee(e, fee, timestamp).balance - e.balance

\* forced close of the long side at price with fee rate fee_rate
close_long_at(e, price, fee_rate, timestamp) ==
    IF e.long_position > 0
    THEN LET pnl == e.long_position * (price - e.long_entry_price)
             fee == MulRate(e.long_position * price, fee_rate)
             e1 == add_cycle_fee([e EXCEPT !.balance = @ + (pnl - fee),
                                           !.total_fees_paid = @ + fee],
                                 fee, timestamp)
         IN  [e1 EXCEPT !.long_position = 0,
                        !.long_entry_price = 0]
    ELSE e

\* forced close of the short side at price with fee rate fee_rate
close_short_at(e, price, fee_rate, timestamp) ==
    IF e.short_position > 0
    THEN LET pnl == e.short_position * (e.short_entry_price - price)
             fee == MulRate(e.short_position * price, fee_rate)
             e1 == add_cycle_fee([e EXCEPT !.balance = @ + (pnl - fee),
                                           !.total_fees_paid = @ + fee],
                                 fee, timestamp)
         IN  [e1 EXCEPT !.short_position = 0,
                        !.short_entry_price = 0]
    ELSE e

\* variant: an equity of zero or less trips as well
liquidation_due_unsigned(equity, maintenance_margin) ==
    equity <= maintenance_margin

\* variant: equality with the maintenance margin does not trip
liquidation_due_strict(equity, maintenance_margin) ==
    equity < maintenance_margin /\ equity > 0

\* the test that trips a liquidation, given equity and maintenance margin
liquidation_due(equity, maintenance_margin) ==
    equity <= maintenance_margin /\ equity > 0

\* the liquidation event that is logged
liquidation_event(timestamp, equity, liquidation_price) ==
    [timestamp |-> timestamp, equity |-> equity, price |-> liquidation_price]

check_and_handle_liquidation(e, timestamp) ==
    IF e.long_position = 0 /\ e.short_position = 0
    THEN [ret |-> FALSE, ex |-> e]
    ELSE LET equity == get_equity(e)
             maintenance_margin == get_maintenance_margin(e)
         IN  IF liquidation_due(equity, maintenance_margin)
             THEN LET liquidation_price == e.current_price
                      e1 == [e EXCEPT
                               !.liquidation_events =
                                   Append(@, liquidation_event(timestamp, equity,
                                                               liquidation_price)),
                               !.active_buy_orders = <<>>,
                               !.active_sell_orders = <<>>]
                      e2 == close_long_at(e1, liquidation_price, e1.taker_fee,
                                          timestamp)
                      e3 == close_short_at(e2, liquidation_price, e2.taker_fee,
                                           timestamp)
                  IN  [ret |-> TRUE, ex |-> [e3 EXCEPT !.balance = 0]]
             ELSE [ret |-> FALSE, ex |-> e]

set_current_price(e, price) == [e EXCEPT !.current_price = price]

\* variant: the average is taken over the quantity after the second add
open_fill_late_average(position, entry_price, amount, price) ==
    IF position = 0
    THEN [position |-> position + amount, entry_price |-> price]
    ELSE LET total_value == position * entry_price + amount * price
             position1 == position + amount
         IN  [position |-> position1 + amount,
              entry_price |-> DecDiv(total_value, position1 + amount)]

\* buy_long / sell_short: (position, entry price) after adding amount at price
open_fill(position, entry_price, amount, price) ==
    IF position = 0
    THEN [position |-> position + amount, entry_price |-> price]
    ELSE LET total_value == position * entry_price + amount * price
             position1 == position + amount
         IN  [position |-> position1 + amount,
              entry_price |-> DecDiv(total_value, position1)]

\* variant: the fill is not clipped to the held quantity
close_fill_unclipped(position, entry_price, amount) ==
    LET trade_amount == amount
        position1 == position - Min(amount, position)
    IN  [trade_amount |-> trade_amount,
         position |-> position1,
         entry_price |-> IF position1 = 0 THEN 0 ELSE entry_price]

\* variant: a full close keeps the entry price
close_fill_keeps_entry(position, entry_price, amount) ==
    LET trade_amount == Min(amount, position)
        position1 == position - trade_amount
    IN  [trade_amount |-> trade_amount,
         position |-> position1,
         entry_price |-> entry_price]

\* sell_long / buy_short on an open side: quantity closed, the rest held
close_fill(position, entry_price, amount) ==
    LET trade_amount == Min(amount, position)
        position1 == position - trade_amount
    IN  [trade_amount |-> trade_amount,
         position |-> position1,
         entry_price |-> IF position1 = 0 THEN 0 ELSE entry_price]

trade_record(timestamp, side, amount, price, fee, pnl, leverage) ==
    [timestamp |-> timestamp, side |-> side, amount |-> amount,
     price |-> price, fee |-> fee, pnl |-> pnl, leverage |-> leverage]

trade_fee(e, amount, price) == MulRate(amount * price, e.maker_fee)

\* the position, the realized PnL, the leverage and the trade record of a
\* fill on e1, the exchange after the fee
fill_position(e1, side, amount, price, fee, timestamp) ==
    LET pnl == IF side = "sell_long" /\ e1.long_position > 0
               THEN close_fill(e1.long_position, e1.long_entry_price, amount).trade_amount
                      * (price - e1.long_entry_price)
               ELSE IF side = "buy_short" /\ e1.short_position > 0
               THEN close_fill(e1.short_position, e1.short_entry_price, amount).trade_amount
                      * (e1.short_entry_price - price)
               ELSE 0
        e2 == IF side = "buy_long"
              THEN LET f == open_fill(e1.long_position, e1.long_entry_price, amount, price)
                   IN  [e1 EXCEPT !.long_position = f.position,
                                  !.long_entry_price = f.entry_price]
              ELSE IF side = "sell_short"
              THEN LET f == open_fill(e1.short_position, e1.short_entry_price, amount, price)
                   IN  [e1 EXCEPT !.short_position = f.position,
                                  !.short_entry_price = f.entry_price]
              ELSE IF side = "sell_long" /\ e1.long_position > 0
              THEN LET f == close_fill(e1.long_position, e1.long_entry_price, amount)
                   IN  [e1 EXCEPT !.balance = @ + pnl,
                                  !.long_position = f.position,
                                  !.long_entry_price = f.entry_price]
              ELSE IF side = "buy_short" /\ e1.short_position > 0
              THEN LET f == close_fill(e1.short_position, e1.short_entry_price, amount)
                   IN  [e1 EXCEPT !.balance = @ + pnl,
                                  !.short_position = f.position,
                                  !.short_entry_price = f.entry_price]
              ELSE e1
        e3 == update_current_leverage(e2)
    IN  [e3 EXCEPT !.trade_history =
                       Append(@, trade_record(timestamp, side, amount, price,
                                              fee, pnl, e3.current_leverage)),
                   !.order_id_counter = @ + 1]

\* variant: the fee is counted and not taken off the balance
pay_fee_uncharged(e, fee, timestamp) ==
    add_cycle_fee([e EXCEPT !.total_fees_paid = @ + fee], fee, timestamp)

\* the fee is paid and, with the rebate enabled, added to the cycle fees
pay_fee(e, fee, timestamp) ==
    add_cycle_fee([e EXCEPT !.balance = @ - fee, !.total_fees_paid = @ + fee],
                  fee, timestamp)

execute_fast_trade(e, side, amount, price, timestamp) ==
    fill_position(pay_fee(e, trade_fee(e, amount, price), timestamp),
                  side, amount, price, trade_fee(e, amount, price), timestamp)

\* an order as it rests in a list: the tuple (price, amount, side)
resting_order(side, amount, price) ==
    [price |-> price, amount |-> amount, side |-> side]

is_buy_side(side) == side \in {"buy_long", "buy_short"}

RECURSIVE insert_sorted(_, _, _)
\* list.sort is stable: o goes behind every resting order that does not have
\* to come after it; descending for the buy list, ascending for the sell list
insert_sorted(sorted, o, descending) ==
    IF sorted = <<>> THEN <<o>>
    ELSE IF (IF descending THEN Head(sorted).price >= o.price
                           ELSE Head(sorted).price <= o.price)
         THEN <<Head(sorted)>> \o insert_sorted(Tail(sorted), o, descending)
         ELSE <<o>> \o sorted

RECURSIVE sort_orders(_, _)
sort_orders(list, descending) ==
    IF list = <<>> THEN <<>>
    ELSE insert_sorted(sort_orders(SubSeq(list, 1, Len(list) - 1), descending),
                       list[Len(list)], descending)

\* the batch split into its buy-side and its sell-side orders, in batch order
batch_lists(orders) ==
    LET IsBuy(o) == is_buy_side(o.side)
        IsSell(o) == ~is_buy_side(o.side)
    IN  [buy |-> SelectSeq(orders, IsBuy), sell |-> SelectSeq(orders, IsSell)]

\* variant: the batch is merged into the resting lists
place_orders_batch_merged(e, orders) ==
    LET lists == batch_lists(orders)
    IN  [e EXCEPT !.active_buy_orders = sort_orders(@ \o lists.buy, TRUE),
                  !.active_sell_orders = sort_orders(@ \o lists.sell, FALSE)]

\* orders: a sequence of (side, amount, price), held here as resting_order
place_orders_batch(e, orders) ==
    LET lists == batch_lists(orders)
    IN  [e EXCEPT !.active_buy_orders = sort_orders(lists.buy, TRUE),
                  !.active_sell_orders = sort_orders(lists.sell, FALSE)]

\* variant: an order exactly at the low does not fill
buy_fills_strict(low, price) == low < price

buy_fills(low, price) == low <= price

sell_fills(high, price) == high >= price

\* variant: an order exactly at the low also stays resting
buy_remains_inclusive(low, price) == low >= price

buy_remains(low, price) == low > price

sell_remains(high, price) == high < price

RECURSIVE execute_all(_, _, _)
execute_all(e, filled, timestamp) ==
    IF filled = <<>> THEN e
    ELSE execute_all(execute_fast_trade(e, Head(filled).side, Head(filled).amount,
                                        Head(filled).price, timestamp),
                     Tail(filled), timestamp)

fast_order_matching(e, high, low, timestamp) ==
    LET BuyFilled(o) == buy_fills(low, o.price)
        BuyRemaining(o) == buy_remains(low, o.price)
        SellFilled(o) == sell_fills(high, o.price)
        SellRemaining(o) == sell_remains(high, o.price)
        filled_buy_orders == SelectSeq(e.active_buy_orders, BuyFilled)
        e1 == [execute_all(e, filled_buy_orders, timestamp) EXCEPT
                  !.active_buy_orders = SelectSeq(e.active_buy_orders, BuyRemaining)]
        filled_sell_orders == SelectSeq(e1.active_sell_orders, SellFilled)
        e2 == [execute_all(e1, filled_sell_orders, timestamp) EXCEPT
                  !.active_sell_orders = SelectSeq(e1.active_sell_orders, SellRemaining)]
    IN  [ret |-> Len(filled_buy_orders) + Len(filled_sell_orders), ex |-> e2]

close_all_positions_market(e, timestamp) ==
    IF e.long_position = 0 /\ e.short_position = 0 THEN e
    ELSE close_short_at(close_long_at(e, e.current_price, e.taker_fee, timestamp),
                        e.current_price, e.taker_fee, timestamp)

update_volatility_monitor(e, timestamp, high, low, close) ==
    [e EXCEPT !.volatility_monitor = update_price(@, timestamp, high, low, close)]

record_equity(e, timestamp) ==
    [e EXCEPT !.equity_history =
        Append(@, [timestamp |-> timestamp,
                   equity |-> e.balance + get_unrealized_pnl(e)])]

\* FastPerpetualExchange.__init__
NewExchange(maker_fee) ==
    [balance |-> InitialBalance * DecScale,
     long_position |-> 0, short_position |-> 0,
     long_entry_price |-> 0, short_entry_price |-> 0,
     base_leverage |-> Leverage, current_leverage |-> Leverage,
     current_price |-> 0,
     active_buy_orders |-> <<>>, active_sell_orders |-> <<>>,
     trade_history |-> <<>>, equity_history |-> <<>>,
     liquidation_events |-> <<>>,
     order_id_counter |-> 1,
     total_fees_paid |-> 0,
     maker_fee |-> maker_fee, taker_fee |-> TakerFee,
     use_fee_rebate |-> UseFeeRebate,
     last_payout_date |-> None, current_cycle_fees |-> 0,
     rebate_payout_day |-> RebatePayoutDay, rebate_rate |-> RebateRate,
     volatility_monitor |-> NewVolatilityMonitor]

----------------------------------------------------------------------------
(* FastPerpetualStrategy.  Order amounts are whole lots: a quotient that   *)
(* gives an amount is rounded half-even to a lot.                          *)

NewStrategy == [last_order_time |-> UnixZero]

\* variant: the floor of a thousandth of the equity is clamped as well
calculate_dynamic_order_size_clamped(e, current_price) ==
    IF ~UseDynamicOrderSize THEN MinOrderAmount
    ELSE LET current_equity == get_equity(e)
             effective_leverage == Min(get_current_max_leverage(e), Leverage)
             order_amount == DecDiv(DecDiv(current_equity, effective_leverage),
                                    current_price)
         IN  Min(MaxOrderAmount, Max(MinOrderAmount, order_amount))

calculate_dynamic_order_size(e, current_price) ==
    IF ~UseDynamicOrderSize THEN MinOrderAmount
    ELSE LET current_equity == get_equity(e)
             effective_leverage == Min(get_current_max_leverage(e), Leverage)
             order_value == DecDiv(current_equity, effective_leverage)
             order_amount == DecDiv(order_value, current_price)
             min_amount == Max(MinOrderAmount,
                               DecDiv(DecDiv(current_equity, 1000), current_price))
             max_amount == MaxOrderAmount
         IN  Max(min_amount, Min(max_amount, order_amount))

\* variant: no refresh interval
should_place_orders_always(s, timestamp) == TRUE

should_place_orders(s, timestamp) ==
    (timestamp - s.last_order_time) >= OrderRefreshTime

\* loss_pct >= stop_loss_pct, the loss compared against that fraction of
\* the entry price
stop_loss_reached(loss, entry_price) ==
    loss >= MulRate(entry_price, PositionStopLoss)

\* variant: only the long side is checked
check_position_stop_loss_long_only(e, enabled, current_price) ==
    IF ~enabled THEN <<>>
    ELSE IF e.long_position > 0
            /\ stop_loss_reached(e.long_entry_price - current_price,
                                 e.long_entry_price)
    THEN <<resting_order("sell_long", e.long_position, current_price)>>
    ELSE <<>>

check_position_stop_loss(e, enabled, current_price) ==
    IF ~enabled THEN <<>>
    ELSE (IF e.long_position > 0
             /\ stop_loss_reached(e.long_entry_price - current_price,
                                  e.long_entry_price)
          THEN <<resting_order("sell_long", e.long_position, current_price)>>
          ELSE <<>>)
      \o (IF e.short_position > 0
             /\ stop_loss_reached(current_price - e.short_entry_price,
                                  e.short_entry_price)
          THEN <<resting_order("buy_short", e.short_position, current_price)>>
          ELSE <<>>)

\* the spread of both sides, a rate in 1/DecScale
calculate_adaptive_spread(e) ==
    IF ~EnableVolatilityAdaptive THEN BaseSpread
    ELSE LET volatility_level == get_volatility_level(e.volatility_monitor)
             multiplier == IF volatility_level = "EXTREME" THEN MaxSpreadMultiplier
                           ELSE IF volatility_level = "HIGH"
                           THEN SpreadAdjustmentFactor
                           ELSE 1
         IN  BaseSpread * multiplier

\* variant: the excess is hedged by opening the other side
check_position_balance_opens(e, current_price) ==
    IF ~EnableVolatilityAdaptive THEN <<>>
    ELSE IF ~should_reduce_exposure(e.volatility_monitor) THEN <<>>
    ELSE LET net_position == get_net_position(e)
             long_pos == e.long_position
             short_pos == e.short_position
             total_position == long_pos + short_pos
             \* in 1/DecScale lots
             target_imbalance == MulRate(MaxImbalanceRatio, PositionBalanceRatio)
             target_net_position == total_position * target_imbalance
             excess_long == DecDiv(net_position * DecScale - target_net_position,
                                   DecScale)
             excess_short == DecDiv(Abs(net_position) * DecScale - target_net_position,
                                    DecScale)
         IN  IF total_position = 0 THEN <<>>
             ELSE IF Abs(net_position) * DecScale > MaxImbalanceRatio * total_position
             THEN IF net_position * DecScale > target_net_position
                  THEN IF long_pos = 0
                       THEN <<resting_order("sell_long", Min(excess_long, long_pos),
                                            current_price)>>
                       ELSE <<resting_order("sell_short", excess_long, current_price)>>
                  ELSE IF net_position * DecScale < -target_net_position
                  THEN IF short_pos = 0
                       THEN <<resting_order("buy_short", Min(excess_short, short_pos),
                                            current_price)>>
                       ELSE <<resting_order("buy_long", excess_short, current_price)>>
                  ELSE <<>>
             ELSE <<>>

check_position_balance(e, current_price) ==
    IF ~EnableVolatilityAdaptive THEN <<>>
    ELSE IF ~should_reduce_exposure(e.volatility_monitor) THEN <<>>
    ELSE LET net_position == get_net_position(e)
             long_pos == e.long_position
             short_pos == e.short_position
             total_position == long_pos + short_pos
             \* in 1/DecScale lots
             target_imbalance == MulRate(MaxImbalanceRatio, PositionBalanceRatio)
             target_net_position == total_position * target_imbalance
             excess_long == DecDiv(net_position * DecScale - target_net_position,
                                   DecScale)
             excess_short == DecDiv(Abs(net_position) * DecScale - target_net_position,
                                    DecScale)
         IN  IF total_position = 0 THEN <<>>
             ELSE IF Abs(net_position) * DecScale > MaxImbalanceRatio * total_position
             THEN IF net_position * DecScale > target_net_position
                  THEN IF long_pos > 0
                       THEN <<resting_order("sell_long", Min(excess_long, long_pos),
                                            current_price)>>
                       ELSE <<resting_order("sell_short", excess_long, current_price)>>
                  ELSE IF net_position * DecScale < -target_net_position
                  THEN IF short_pos > 0
                       THEN <<resting_order("buy_short", Min(excess_short, short_pos),
                                            current_price)>>
                       ELSE <<resting_order("buy_long", excess_short, current_price)>>
                  ELSE <<>>
             ELSE <<>>

\* min(threshold, value), threshold in whole USDT or Infinity
tier_cap(threshold, value) ==
    IF LeqThreshold(value, threshold) THEN value ELSE threshold * DecScale

\* position < (max_position_value_in_tier / current_price) * 0.5
below_half_max_position(position, max_position_value_in_tier, current_price) ==
    position * current_price
        < (max_position_value_in_tier \div 2) + (max_position_value_in_tier % 2)

\* the quotes of step 3 to 7 of generate_orders
quote_orders(e, current_price) ==
    LET spread == calculate_adaptive_spread(e)
        bid_price == MulRate(current_price, DecScale - spread)
        ask_price == MulRate(current_price, DecScale + spread)
        long_pos == e.long_position
        short_pos == e.short_position
        current_equity == get_equity(e)
        available_margin == get_available_margin(e)
        current_max_leverage == get_current_max_leverage(e)
        tier == get_current_leverage_tier(e)
        max_position_value_in_tier ==
            tier_cap(tier[1], MulInt(MulInt(current_equity, tier[2]),
                                     MaxPositionValueRatio))
        total_position_value == (long_pos + short_pos) * current_price
        effective_leverage == Min(current_max_leverage, Leverage)
        amount == calculate_dynamic_order_size(e, current_price)
        \* an opening quote of a side, if its position and the margin allow it
        Opening(side, position, price) ==
            IF below_half_max_position(position, max_position_value_in_tier,
                                       current_price)
               /\ available_margin > DecDiv(amount * price, effective_leverage) * 2
            THEN <<resting_order(side, amount, price)>>
            ELSE <<>>
    IN  IF total_position_value > max_position_value_in_tier
        THEN [placed |-> FALSE, orders |-> <<>>]
        ELSE [placed |-> TRUE,
              orders |->
                  Opening("buy_long", long_pos, bid_price)
               \o Opening("sell_short", short_pos, ask_price)
               \o (IF long_pos > 0
                   THEN <<resting_order("sell_long", Min(amount, long_pos),
                                        MulRate(ask_price, DecScale + spread))>>
                   ELSE <<>>)
               \o (IF short_pos > 0
                   THEN <<resting_order("buy_short", Min(amount, short_pos),
                                        MulRate(bid_price, DecScale - spread))>>
                   ELSE <<>>)]

\* variant: the refresh interval is checked first
generate_orders_throttled(e, s, enable_position_stop_loss, current_price, timestamp) ==
    LET stop_loss_orders ==
            check_position_stop_loss(e, enable_position_stop_loss, current_price)
        balance_orders == check_position_balance(e, current_price)
        quotes == quote_orders(e, current_price)
    IN  IF ~should_place_orders(s, timestamp)
        THEN [orders |-> <<>>, strategy |-> s]
        ELSE IF stop_loss_orders # <<>>
        THEN [orders |-> stop_loss_orders, strategy |-> s]
        ELSE IF balance_orders # <<>>
        THEN [orders |-> balance_orders, strategy |-> s]
        ELSE IF ~quotes.placed
        THEN [orders |-> <<>>, strategy |-> s]
        ELSE [orders |-> quotes.orders,
              strategy |-> [s EXCEPT !.last_order_time = timestamp]]

\* the orders returned and the strategy after the call
generate_orders(e, s, enable_position_stop_loss, current_price, timestamp) ==
    LET stop_loss_orders ==
            check_position_stop_loss(e, enable_position_stop_loss, current_price)
        balance_orders == check_position_balance(e, current_price)
        quotes == quote_orders(e, current_price)
    IN  IF stop_loss_orders # <<>>
        THEN [orders |-> stop_loss_orders, strategy |-> s]
        ELSE IF balance_orders # <<>>
        THEN [orders |-> balance_orders, strategy |-> s]
        ELSE IF ~should_place_orders(s, timestamp)
        THEN [orders |-> <<>>, strategy |-> s]
        ELSE IF ~quotes.placed
        THEN [orders |-> <<>>, strategy |-> s]
        ELSE [orders |-> quotes.orders,
              strategy |-> [s EXCEPT !.last_order_time = timestamp]]

\* get_price_trajectory: row is the candle as a pandas row
get_price_trajectory(row, prev_close) ==
    LET o == row.open
        h == row.high
        l == row.low
        c == row.close
    IN  IF c >= o
        THEN << <<prev_close, prev_close, prev_close>>,
                <<o, o, o>>,
                <<l, o, l>>,
                <<h, h, l>>,
                <<c, h, l>> >>
        ELSE << <<prev_close, prev_close, prev_close>>,
                <<o, o, o>>,
                <<h, h, o>>,
                <<l, h, l>>,
                <<c, h, l>> >>

\* get_price_trajectory_optimized: kline_data is the candle as a dict
get_price_trajectory_optimized(kline_data, prev_close) ==
    LET o == kline_data.open
        h == kline_data.high
        l == kline_data.low
        c == kline_data.close
    IN  IF c >= o
        THEN << <<prev_close, prev_close, prev_close>>,
                <<o, o, o>>,
                <<l, o, l>>,
                <<h, h, l>>,
                <<c, h, l>> >>
        ELSE << <<prev_close, prev_close, prev_close>>,
                <<o, o, o>>,
                <<h, h, o>>,
                <<l, h, l>>,
                <<c, h, l>> >>

\* variant: a candle that closes at its open is walked as a falling candle
get_price_trajectory_vectorized_doji_falls(o, h, l, c, prev_close) ==
    IF c > o
    THEN << <<prev_close, prev_close, prev_close>>,
            <<o, o, o>>,
            <<l, o, l>>,
            <<h, h, l>>,
            <<c, h, l>> >>
    ELSE << <<prev_close, prev_close, prev_close>>,
            <<o, o, o>>,
            <<h, h, o>>,
            <<l, h, l>>,
            <<c, h, l>> >>

\* get_price_trajectory_vectorized: (price, high_since_open, low_since_open)
get_price_trajectory_vectorized(o, h, l, c, prev_close) ==
    IF c >= o
    THEN << <<prev_close, prev_close, prev_close>>,
            <<o, o, o>>,
            <<l, o, l>>,
            <<h, h, l>>,
            <<c, h, l>> >>
    ELSE << <<prev_close, prev_close, prev_close>>,
            <<o, o, o>>,
            <<h, h, o>>,
            <<l, h, l>>,
            <<c, h, l>> >>

----------------------------------------------------------------------------
(* The callers.  last is the call just made: its arguments, what it        *)
(* returned and the exchange it was made on; prev is the call before it;   *)
(* steps counts the calls and gives each call its timestamp.               *)

MaxOps == 4

MaxBookOps == 2

MaxPosition == 60

MaxBatch == 2

\* BACKTEST_CONFIG["start_date"], 2021-01-01
StartTime == 1609459200 - TimeOrigin

Sides == {"buy_long", "sell_short", "sell_long", "buy_short"}

\* (amount, price) of the fills a caller makes
Fills == {<<0, 2500 * DecScale>>, <<10, 2500 * DecScale>>, <<20, 2525 * DecScale>>}

MarkPrices == {2500 * DecScale, 2525 * DecScale}

OrderChoices ==
    { resting_order("buy_long", 10, 2500 * DecScale),
      resting_order("buy_short", 10, 2525 * DecScale),
      resting_order("sell_long", 10, 2525 * DecScale),
      resting_order("sell_short", 20, 2500 * DecScale) }

Batches == UNION { [1..n -> OrderChoices] : n \in 0..MaxBatch }

Now == StartTime + 12 * steps

NoArgs ==
    [side |-> "", amount |-> 0, price |-> 0, high |-> 0, low |-> 0,
     orders |-> <<>>, timestamp |-> 0]

Call(op, args, ret, filled) ==
    [op |-> op, args |-> args, ret |-> ret, filled |-> filled, pre |-> ex]

NoCall(e) ==
    [op |-> "init", args |-> NoArgs, ret |-> FALSE, filled |-> 0, pre |-> e]

RECURSIVE SumAmounts(_)
SumAmounts(list) ==
    IF list = <<>> THEN 0 ELSE Head(list).amount + SumAmounts(Tail(list))

SetCurrentPrice ==
    \E price \in MarkPrices :
        /\ steps < MaxOps
        /\ ex' = set_current_price(ex, price)
        /\ last' = Call("set_current_price", [NoArgs EXCEPT !.price = price], FALSE, 0)
        /\ prev' = last
        /\ steps' = steps + 1
        /\ UNCHANGED <<strategy, run>>

ExecuteFastTrade ==
    \E side \in Sides, fill \in Fills :
        /\ steps < MaxOps
        /\ ex.long_position + ex.short_position + 2 * fill[1] <= MaxPosition
        /\ ex' = execute_fast_trade(ex, side, fill[1], fill[2], Now)
        /\ last' = Call("execute_fast_trade",
                        [NoArgs EXCEPT !.side = side, !.amount = fill[1],
                                       !.price = fill[2], !.timestamp = Now],
                        FALSE, 0)
        /\ prev' = last
        /\ steps' = steps + 1
        /\ UNCHANGED <<strategy, run>>

CheckAndHandleLiquidation ==
    /\ steps < MaxOps
    /\ LET r == check_and_handle_liquidation(ex, Now)
       IN  /\ ex' = r.ex
           /\ last' = Call("check_and_handle_liquidation",
                           [NoArgs EXCEPT !.timestamp = Now], r.ret, 0)
    /\ prev' = last
    /\ steps' = steps + 1
    /\ UNCHANGED <<strategy, run>>

CloseAllPositionsMarket ==
    /\ steps < MaxOps
    /\ ex' = close_all_positions_market(ex, Now)
    /\ last' = Call("close_all_positions_market",
                    [NoArgs EXCEPT !.timestamp = Now], FALSE, 0)
    /\ prev' = last
    /\ steps' = steps + 1
    /\ UNCHANGED <<strategy, run>>

PlaceOrdersBatch ==
    \E orders \in Batches :
        /\ steps < MaxBookOps
        /\ ex' = place_orders_batch(ex, orders)
        /\ last' = Call("place_orders_batch", [NoArgs EXCEPT !.orders = orders], FALSE, 0)
        /\ prev' = last
        /\ steps' = steps + 1
        /\ UNCHANGED <<strategy, run>>

FastOrderMatching ==
    \E high \in MarkPrices, low \in MarkPrices :
        /\ steps < MaxBookOps
        /\ low <= high
        /\ ex.long_position + ex.short_position
             + 2 * (SumAmounts(ex.active_buy_orders) + SumAmounts(ex.active_sell_orders))
             <= MaxPosition
        /\ LET r == fast_order_matching(ex, high, low, Now)
           IN  /\ ex' = r.ex
               /\ last' = Call("fast_order_matching",
                               [NoArgs EXCEPT !.high = high, !.low = low,
                                              !.timestamp = Now],
                               FALSE, r.ret)
        /\ prev' = last
        /\ steps' = steps + 1
        /\ UNCHANGED <<strategy, run>>

----------------------------------------------------------------------------
(* run_fast_perpetual_backtest: the candle loop.  run holds the locals of  *)
(* the loop and pc, the place the loop is at; run.checks logs, for every   *)
(* liquidation check of the run, its timestamp and the account it was made *)
(* on.                                                                     *)

MaxCandles == 2

\* seconds between two candles of bar_interval "1m"
BarSeconds == 60

\* prices of one lot
PriceLevels ==
    {29200 * DecScale, 29300 * DecScale, 29900 * DecScale, 30000 * DecScale}

\* candles that open and close at their high or their low
Candles ==
    { k \in [o : PriceLevels, h : PriceLevels, l : PriceLevels, c : PriceLevels] :
          k.l <= k.h /\ k.o \in {k.l, k.h} /\ k.c \in {k.l, k.h} }

NewRun(enable_stop_loss) ==
    [pc |-> "candle", i |-> 0, j |-> 0,
     kline_timestamp |-> 0, sub_timestamp |-> 0,
     candle |-> [o |-> 0, h |-> 0, l |-> 0, c |-> 0],
     prev_close |-> 0, price_trajectory |-> <<>>,
     liquidated |-> FALSE, stopped_by_risk |-> FALSE,
     peak_equity |-> InitialBalance * DecScale,
     enable_stop_loss |-> enable_stop_loss,
     checks |-> <<>>,
     data_length |-> 0,
     summary |-> [final_equity |-> 0, total_trades |-> 0,
                  long_position |-> 0, short_position |-> 0,
                  liquidated |-> FALSE, stopped_by_risk |-> FALSE]]

\* the account a liquidation check is made on, as the log keeps it
account(e, timestamp) ==
    [timestamp |-> timestamp, balance |-> e.balance,
     long_position |-> e.long_position, short_position |-> e.short_position,
     long_entry_price |-> e.long_entry_price,
     short_entry_price |-> e.short_entry_price,
     current_price |-> e.current_price]

\* sub_timestamp = kline_timestamp + j * 12, kept in the 32-bit range
sub_timestamp_of(kline_timestamp, j) ==
    LET sub_timestamp == kline_timestamp + j * 12
    IN  IF sub_timestamp > 2147483647 - TimeOrigin \/ sub_timestamp < UnixZero
        THEN kline_timestamp ELSE sub_timestamp

\* variant: the sub-point after a liquidation is processed as well
liquidation_check_step_no_break(ret) ==
    [liquidated |-> ret, pc |-> "orders"]

\* if exchange.check_and_handle_liquidation(sub_timestamp):
\*     liquidated = True; break
liquidation_check_step(ret) ==
    [liquidated |-> ret, pc |-> IF ret THEN "close" ELSE "orders"]

\* variant: the drawdown does not stop the run, only the equity floor does
drawdown_reached_never(peak_equity, equity_now) == FALSE

\* drawdown_pct >= max_drawdown, the drawdown compared against that
\* fraction of the peak
drawdown_reached(peak_equity, equity_now) ==
    IF peak_equity > 0
    THEN peak_equity - equity_now >= MulRate(peak_equity, MaxDrawdown)
    ELSE 0 >= MaxDrawdown

\* for i in range(data_length): the next candle and its trajectory;
\* prev_close starts as the close of the first candle
RunNextCandle ==
    \E candle \in Candles :
        /\ run.pc = "candle"
        /\ run.i < run.data_length
        /\ LET prev_close == IF run.i = 0 THEN candle.c ELSE run.prev_close
           IN  run' = [run EXCEPT
                         !.pc = "price", !.j = 0,
                         !.kline_timestamp = StartTime + BarSeconds * run.i,
                         !.candle = candle,
                         !.prev_close = prev_close,
                         !.price_trajectory =
                             get_price_trajectory_vectorized(
                                 candle.o, candle.h, candle.l, candle.c, prev_close)]
        /\ last' = Call("next_candle", NoArgs, FALSE, 0)
        /\ prev' = last
        /\ UNCHANGED <<ex, strategy, steps>>

\* the mark price of sub-point j; Decimal(str(price)) is the price itself
\* for the prices of PriceLevels
RunSetCurrentPrice ==
    /\ run.pc = "price"
    /\ LET price == run.price_trajectory[run.j + 1][1]
       IN  /\ ex' = set_current_price(ex, price)
           /\ last' = Call("set_current_price", [NoArgs EXCEPT !.price = price],
                           FALSE, 0)
    /\ run' = [run EXCEPT !.pc = "liquidation",
                          !.sub_timestamp = sub_timestamp_of(run.kline_timestamp, run.j)]
    /\ prev' = last
    /\ UNCHANGED <<strategy, steps>>

RunCheckLiquidation ==
    /\ run.pc = "liquidation"
    /\ LET r == check_and_handle_liquidation(ex, run.sub_timestamp)
           step == liquidation_check_step(r.ret)
       IN  /\ ex' = r.ex
           /\ run' = [run EXCEPT !.pc = step.pc,
                                 !.liquidated = step.liquidated,
                                 !.checks = Append(@, account(ex, run.sub_timestamp))]
           /\ last' = Call("check_and_handle_liquidation",
                           [NoArgs EXCEPT !.timestamp = run.sub_timestamp], r.ret, 0)
    /\ prev' = last
    /\ UNCHANGED <<strategy, steps>>

\* variant: the candle is closed after each sub-point
after_sub_point_closes(j, price_trajectory) == "close"

\* the inner loop after sub-point j (from 0): the next sub-point, or the end
\* of the candle after the last one
after_sub_point(j, price_trajectory) ==
    IF j + 1 = Len(price_trajectory) THEN "close" ELSE "price"

\* variant: an empty batch is placed as well
submit_orders_always(e, orders) == place_orders_batch(e, orders)

\* if orders: exchange.place_orders_batch(orders)
submit_orders(e, orders) ==
    IF orders # <<>> THEN place_orders_batch(e, orders) ELSE e

\* orders = strategy.generate_orders(...) and the submit step
RunGenerateOrders ==
    /\ run.pc = "orders"
    /\ LET g == generate_orders(ex, strategy, EnablePositionStopLoss,
                                ex.current_price, run.sub_timestamp)
       IN  /\ strategy' = g.strategy
           /\ ex' = submit_orders(ex, g.orders)
           /\ last' = Call("generate_orders",
                           [NoArgs EXCEPT !.price = ex.current_price,
                                          !.orders = g.orders,
                                          !.timestamp = run.sub_timestamp],
                           FALSE, 0)
    /\ run' = [run EXCEPT !.pc = "match"]
    /\ prev' = last
    /\ UNCHANGED steps

RunOrderMatching ==
    /\ run.pc = "match"
    /\ LET high == run.price_trajectory[run.j + 1][2]
           low == run.price_trajectory[run.j + 1][3]
           r == fast_order_matching(ex, high, low, run.sub_timestamp)
       IN  /\ ex' = r.ex
           /\ last' = Call("fast_order_matching",
                           [NoArgs EXCEPT !.high = high, !.low = low,
                                          !.timestamp = run.sub_timestamp],
                           FALSE, r.ret)
    /\ run' = [run EXCEPT !.j = @ + 1,
                          !.pc = after_sub_point(run.j, run.price_trajectory)]
    /\ prev' = last
    /\ UNCHANGED <<strategy, steps>>

\* variant: the risk check is made after a liquidation as well
risk_monitored_always(enable_stop_loss, liquidated) == enable_stop_loss

\* if RISK_CONFIG["enable_stop_loss"] and not liquidated
risk_monitored(enable_stop_loss, liquidated) == enable_stop_loss /\ ~liquidated

\* the end of a candle: prev_close, the volatility monitor, the equity
\* sample, the risk stop, and the breaks out of the candle loop
RunCloseCandle ==
    /\ run.pc = "close"
    /\ LET k == run.candle
           e1 == update_volatility_monitor(ex, run.kline_timestamp, k.h, k.l, k.c)
           e2 == IF /\ run.kline_timestamp <= 2147483647 - TimeOrigin
                    /\ run.kline_timestamp >= UnixZero
                 THEN record_equity(e1, run.kline_timestamp) ELSE e1
           monitored == risk_monitored(run.enable_stop_loss, run.liquidated)
           equity_now == get_equity(e2)
           peak_equity == IF monitored /\ equity_now > run.peak_equity
                          THEN equity_now ELSE run.peak_equity
           stopped == /\ monitored
                      /\ \/ equity_now <= MinEquity * DecScale
                         \/ drawdown_reached(peak_equity, equity_now)
       IN  /\ ex' = IF stopped
                    THEN close_all_positions_market(e2, run.kline_timestamp) ELSE e2
           /\ run' = [run EXCEPT
                         !.prev_close = k.c,
                         !.peak_equity = peak_equity,
                         !.stopped_by_risk = stopped,
                         !.i = @ + 1,
                         !.pc = IF run.liquidated \/ stopped THEN "done" ELSE "candle"]
    /\ last' = Call("close_candle", [NoArgs EXCEPT !.timestamp = run.kline_timestamp],
                    FALSE, 0)
    /\ prev' = last
    /\ UNCHANGED <<strategy, steps>>

\* the summary the run returns, as far as it is read here
summary_of(e, liquidated, stopped_by_risk) ==
    [final_equity |-> get_equity(e),
     total_trades |-> Len(e.trade_history),
     long_position |-> e.long_position, short_position |-> e.short_position,
     liquidated |-> liquidated, stopped_by_risk |-> stopped_by_risk]

\* after the loop, left by a break or at the end of the data: the summary
RunReturn ==
    /\ \/ run.pc = "done"
       \/ run.pc = "candle" /\ run.i = run.data_length
    /\ run' = [run EXCEPT !.pc = "returned",
                          !.summary = summary_of(ex, run.liquidated,
                                                 run.stopped_by_risk)]
    /\ last' = Call("return", NoArgs, FALSE, 0)
    /\ prev' = last
    /\ UNCHANGED <<ex, strategy, steps>>

----------------------------------------------------------------------------
(* The three trajectory functions, each called once on a candle and a      *)
(* previous close.                                                         *)

\* every candle of PriceLevels: low <= open, close <= high
AllCandles ==
    { k \in [o : PriceLevels, h : PriceLevels, l : PriceLevels, c : PriceLevels] :
          k.l <= k.o /\ k.l <= k.c /\ k.o <= k.h /\ k.c <= k.h }

\* the candle as the row or dict the first two functions read
AsRow(k) == [open |-> k.o, high |-> k.h, low |-> k.l, close |-> k.c]

CandleArgs == [NoArgs EXCEPT !.price = run.prev_close]

GetPriceTrajectory ==
    /\ run.pc = "candle"
    /\ run' = [run EXCEPT !.pc = "done",
                          !.price_trajectory =
                              get_price_trajectory(AsRow(run.candle), run.prev_close)]
    /\ last' = Call("get_price_trajectory", CandleArgs, FALSE, 0)
    /\ prev' = last
    /\ UNCHANGED <<ex, strategy, steps>>

GetPriceTrajectoryOptimized ==
    /\ run.pc = "candle"
    /\ run' = [run EXCEPT !.pc = "done",
                          !.price_trajectory =
                              get_price_trajectory_optimized(AsRow(run.candle),
                                                             run.prev_close)]
    /\ last' = Call("get_price_trajectory_optimized", CandleArgs, FALSE, 0)
    /\ prev' = last
    /\ UNCHANGED <<ex, strategy, steps>>

GetPriceTrajectoryVectorized ==
    /\ run.pc = "candle"
    /\ LET k == run.candle
       IN  run' = [run EXCEPT !.pc = "done",
                             !.price_trajectory =
                                 get_price_trajectory_vectorized(k.o, k.h, k.l, k.c,
                                                                 run.prev_close)]
    /\ last' = Call("get_price_trajectory_vectorized", CandleArgs, FALSE, 0)
    /\ prev' = last
    /\ UNCHANGED <<ex, strategy, steps>>

----------------------------------------------------------------------------
(* The calls of a run with the fee rebate enabled, at instants around the  *)
(* payout days; run.sub_timestamp is the instant of the latest call.       *)

MaxRebateOps == 4

\* 2021-01-01 00:00:00, the last second before and the first instant of
\* 2021-01-19 and of 2021-02-19, 2021-04-25, Unix 2147483647 (2038-01-19
\* 03:14:07) and 2038-02-19 00:00:00
RebateTimes ==
    { 0,
      18 * SecondsPerDay - 1, 18 * SecondsPerDay,
      49 * SecondsPerDay - 1, 49 * SecondsPerDay,
      114 * SecondsPerDay,
      2147483647 - TimeOrigin,
      6258 * SecondsPerDay }

RebateSides == {"buy_long", "sell_long"}

\* (amount, price) of an opening fill
RebateFill == <<10, 2500 * DecScale>>

\* (amount, price) of the fill of a side: a close is made 20 USDT above
RebateFillOf(side) ==
    IF side = "buy_long" THEN RebateFill ELSE <<RebateFill[1], 2520 * DecScale>>

\* the mark price the fills are made at and one 20 USDT below it
RebateMarkPrices == {2480 * DecScale, 2500 * DecScale}

\* the instant of the last call, the rebates credited to the balance so far
\* and whether a market flatten or a liquidation has closed a position
NewRebateRun == [sub_timestamp |-> StartTime, rebates |-> 0, flattened |-> FALSE]

\* the rebates credited by the closes of a forced close at price
closes_credited(e, price, fee_rate, timestamp) ==
    (IF e.long_position > 0
     THEN rebate_credited(e, MulRate(e.long_position * price, fee_rate), timestamp)
     ELSE 0)
  + (IF e.short_position > 0
     THEN rebate_credited(close_long_at(e, price, fee_rate, timestamp),
                          MulRate(e.short_position * price, fee_rate), timestamp)
     ELSE 0)

ProcessFeeRebate ==
    \E timestamp \in RebateTimes :
        /\ steps < MaxRebateOps
        /\ timestamp >= run.sub_timestamp
        /\ ex' = process_fee_rebate(ex, timestamp)
        /\ last' = Call("process_fee_rebate",
                        [NoArgs EXCEPT !.timestamp = timestamp], FALSE, 0)
        /\ run' = [run EXCEPT !.sub_timestamp = timestamp,
                              !.rebates = @ + rebate_credited(ex, 0, timestamp)]
        /\ prev' = last
        /\ steps' = steps + 1
        /\ UNCHANGED strategy

ExecuteFastTradeAt ==
    \E side \in RebateSides, timestamp \in RebateTimes :
        /\ steps < MaxRebateOps
        /\ timestamp >= run.sub_timestamp
        /\ ex.long_position + ex.short_position + 2 * RebateFill[1] <= MaxPosition
        /\ ex' = execute_fast_trade(ex, side, RebateFillOf(side)[1],
                                    RebateFillOf(side)[2], timestamp)
        /\ last' = Call("execute_fast_trade",
                        [NoArgs EXCEPT !.side = side, !.amount = RebateFillOf(side)[1],
                                       !.price = RebateFillOf(side)[2],
                                       !.timestamp = timestamp],
                        FALSE, 0)
        /\ run' = [run EXCEPT
                      !.sub_timestamp = timestamp,
                      !.rebates = @ + rebate_credited(
                                          ex, trade_fee(ex, RebateFillOf(side)[1],
                                                        RebateFillOf(side)[2]),
                                          timestamp)]
        /\ prev' = last
        /\ steps' = steps + 1
        /\ UNCHANGED strategy

CloseAllPositionsMarketAt ==
    \E timestamp \in RebateTimes :
        /\ steps < MaxRebateOps
        /\ timestamp >= run.sub_timestamp
        /\ ex' = close_all_positions_market(ex, timestamp)
        /\ last' = Call("close_all_positions_market",
                        [NoArgs EXCEPT !.timestamp = timestamp], FALSE, 0)
        /\ run' = [run EXCEPT
                      !.sub_timestamp = timestamp,
                      !.rebates = @ + closes_credited(ex, ex.current_price,
                                                      ex.taker_fee, timestamp),
                      !.flattened = @ \/ ex.long_position > 0
                                      \/ ex.short_position > 0]
        /\ prev' = last
        /\ steps' = steps + 1
        /\ UNCHANGED strategy

\* the head of a sub-point of the run: set_current_price, then
\* check_and_handle_liquidation at the instant of the last call
SetPriceAndCheckLiquidation ==
    \E price \in RebateMarkPrices :
        /\ steps < MaxRebateOps
        /\ LET e1 == set_current_price(ex, price)
               c == check_and_handle_liquidation(e1, run.sub_timestamp)
           IN  /\ ex' = c.ex
               /\ last' = Call("check_and_handle_liquidation",
                               [NoArgs EXCEPT !.price = price,
                                              !.timestamp = run.sub_timestamp],
                               c.ret, 0)
               /\ run' = [run EXCEPT
                             !.rebates = @ + (IF c.ret
                                              THEN closes_credited(e1, price, e1.taker_fee,
                                                                   run.sub_timestamp)
                                              ELSE 0),
                             !.flattened = @ \/ c.ret]
        /\ prev' = last
        /\ steps' = steps + 1
        /\ UNCHANGED strategy

----------------------------------------------------------------------------
(* A run under a configured leverage, with the position stop-loss enabled  *)
(* or not: the constructors and the sub-points that follow them, each at a *)
(* mark price and a high and a low around it.                              *)

MaxConfigSubPoints == 2

\* leverages a configuration may hold: 0 and that of STRATEGY_CONFIG
Leverages == {0, Leverage}

\* FastPerpetualExchange.__init__ with STRATEGY_CONFIG["leverage"] as
\* configured: the value is stored as it is
NewExchangeWith(maker_fee, leverage) ==
    [NewExchange(maker_fee) EXCEPT !.base_leverage = leverage,
                                   !.current_leverage = leverage]

\* mark prices more than 5% apart
ConfigPrices == {28000 * DecScale, 30000 * DecScale, 32000 * DecScale}

NewConfigRun(leverage, enable_position_stop_loss) ==
    [pc |-> "price", leverage |-> leverage,
     enable_position_stop_loss |-> enable_position_stop_loss,
     raised |-> FALSE, n |-> 0, sub_timestamp |-> StartTime]

\* calculate_dynamic_order_size: Decimal("1") / Decimal(str(effective_leverage))
\* raises decimal.DivisionByZero
order_size_raises(e, leverage) ==
    UseDynamicOrderSize /\ Min(get_current_max_leverage(e), leverage) = 0

\* generate_orders gets to a call of calculate_dynamic_order_size
sizes_an_order(e, s, enable_position_stop_loss, current_price, timestamp) ==
    LET tier == get_current_leverage_tier(e)
        max_position_value_in_tier ==
            tier_cap(tier[1], MulInt(MulInt(get_equity(e), tier[2]),
                                     MaxPositionValueRatio))
    IN  /\ check_position_stop_loss(e, enable_position_stop_loss, current_price) = <<>>
        /\ check_position_balance(e, current_price) = <<>>
        /\ should_place_orders(s, timestamp)
        /\ (e.long_position + e.short_position) * current_price
               <= max_position_value_in_tier
        /\ \/ below_half_max_position(e.long_position, max_position_value_in_tier,
                                      current_price)
           \/ below_half_max_position(e.short_position, max_position_value_in_tier,
                                      current_price)
           \/ e.long_position > 0
           \/ e.short_position > 0

ConfigSetCurrentPrice ==
    \E price \in ConfigPrices :
        /\ run.pc = "price"
        /\ run.n < MaxConfigSubPoints
        /\ ex' = set_current_price(ex, price)
        /\ last' = Call("set_current_price", [NoArgs EXCEPT !.price = price], FALSE, 0)
        /\ run' = [run EXCEPT !.pc = "liquidation",
                              !.sub_timestamp = StartTime + 12 * run.n]
        /\ prev' = last
        /\ UNCHANGED <<strategy, steps>>

ConfigCheckLiquidation ==
    /\ run.pc = "liquidation"
    /\ LET r == check_and_handle_liquidation(ex, run.sub_timestamp)
       IN  /\ ex' = r.ex
           /\ run' = [run EXCEPT !.pc = liquidation_check_step(r.ret).pc]
           /\ last' = Call("check_and_handle_liquidation",
                           [NoArgs EXCEPT !.timestamp = run.sub_timestamp], r.ret, 0)
    /\ prev' = last
    /\ UNCHANGED <<strategy, steps>>

\* strategy.generate_orders and the submit step; the exception of a
\* division by a zero leverage leaves the loop
ConfigGenerateOrders ==
    /\ run.pc = "orders"
    /\ IF /\ sizes_an_order(ex, strategy, run.enable_position_stop_loss,
                            ex.current_price, run.sub_timestamp)
          /\ order_size_raises(ex, run.leverage)
       THEN /\ run' = [run EXCEPT !.pc = "raised", !.raised = TRUE]
            /\ last' = Call("generate_orders",
                            [NoArgs EXCEPT !.price = ex.current_price,
                                           !.timestamp = run.sub_timestamp],
                            FALSE, 0)
            /\ UNCHANGED <<ex, strategy>>
       ELSE LET g == generate_orders(ex, strategy, run.enable_position_stop_loss,
                                     ex.current_price, run.sub_timestamp)
            IN  /\ strategy' = g.strategy
                /\ ex' = submit_orders(ex, g.orders)
                /\ run' = [run EXCEPT !.pc = "match"]
                /\ last' = Call("generate_orders",
                                [NoArgs EXCEPT !.price = ex.current_price,
                                               !.orders = g.orders,
                                               !.timestamp = run.sub_timestamp],
                                FALSE, 0)
    /\ prev' = last
    /\ UNCHANGED steps

ConfigOrderMatching ==
    \E high \in ConfigPrices, low \in ConfigPrices :
        /\ run.pc = "match"
        /\ low <= ex.current_price
        /\ ex.current_price <= high
        /\ LET r == fast_order_matching(ex, high, low, run.sub_timestamp)
           IN  /\ ex' = r.ex
               /\ last' = Call("fast_order_matching",
                               [NoArgs EXCEPT !.high = high, !.low = low,
                                              !.timestamp = run.sub_timestamp],
                               FALSE, r.ret)
        /\ run' = [run EXCEPT !.pc = "price", !.n = @ + 1]
        /\ prev' = last
        /\ UNCHANGED <<strategy, steps>>

----------------------------------------------------------------------------
(* The calls of a strategy on an exchange that takes mark prices, fills    *)
(* and candles of its volatility monitor between the decision cycles.      *)

MaxStrategyOps == 4

StrategyPrices == {2300 * DecScale, 2500 * DecScale, 2700 * DecScale}

\* (amount, price) of the fills between the decision cycles
StrategyFills == {<<10, 2500 * DecScale>>, <<10, 25660080>>}

\* (high, low, close) of a calm candle and of one with a range of 32% of
\* its close
VolatilityCandles ==
    { <<2500 * DecScale, 2500 * DecScale, 2500 * DecScale>>,
      <<3000 * DecScale, 2200 * DecScale, 2500 * DecScale>> }

\* seconds from one decision cycle to the next
CycleGaps == {OrderRefreshTime - 1, OrderRefreshTime}

NewStrategyRun(enable_position_stop_loss) ==
    [pc |-> "cycle", enable_position_stop_loss |-> enable_position_stop_loss,
     sub_timestamp |-> StartTime]

StrategySetCurrentPrice ==
    \E price \in StrategyPrices :
        /\ steps < MaxStrategyOps
        /\ ex' = set_current_price(ex, price)
        /\ last' = Call("set_current_price", [NoArgs EXCEPT !.price = price], FALSE, 0)
        /\ prev' = last
        /\ steps' = steps + 1
        /\ UNCHANGED <<strategy, run>>

StrategyFill ==
    \E side \in Sides, fill \in StrategyFills :
        /\ steps < MaxStrategyOps
        /\ ex.long_position + ex.short_position + 2 * fill[1] <= MaxPosition
        /\ ex' = execute_fast_trade(ex, side, fill[1], fill[2], run.sub_timestamp)
        /\ last' = Call("execute_fast_trade",
                        [NoArgs EXCEPT !.side = side, !.amount = fill[1],
                                       !.price = fill[2],
                                       !.timestamp = run.sub_timestamp],
                        FALSE, 0)
        /\ prev' = last
        /\ steps' = steps + 1
        /\ UNCHANGED <<strategy, run>>

StrategyUpdateVolatility ==
    \E candle \in VolatilityCandles :
        /\ steps < MaxStrategyOps
        /\ ex' = update_volatility_monitor(ex, run.sub_timestamp,
                                           candle[1], candle[2], candle[3])
        /\ last' = Call("update_volatility_monitor",
                        [NoArgs EXCEPT !.high = candle[1], !.low = candle[2],
                                       !.price = candle[3],
                                       !.timestamp = run.sub_timestamp],
                        FALSE, 0)
        /\ prev' = last
        /\ steps' = steps + 1
        /\ UNCHANGED <<strategy, run>>

\* strategy.generate_orders(exchange.current_price, timestamp)
StrategyGenerateOrders ==
    \E gap \in CycleGaps :
        /\ steps < MaxStrategyOps
        /\ LET timestamp == run.sub_timestamp + gap
               g == generate_orders(ex, strategy, run.enable_position_stop_loss,
                                    ex.current_price, timestamp)
           IN  /\ strategy' = g.strategy
               /\ last' = Call("generate_orders",
                               [NoArgs EXCEPT !.price = ex.current_price,
                                              !.orders = g.orders,
                                              !.timestamp = timestamp],
                               FALSE, 0)
               /\ run' = [run EXCEPT !.sub_timestamp = timestamp]
        /\ prev' = last
        /\ steps' = steps + 1
        /\ UNCHANGED ex

----------------------------------------------------------------------------
(* One call of calculate_dynamic_order_size or of                           *)
(* check_and_handle_liquidation on an account of any balance, flat, long   *)
(* or hedged, at any mark price.                                           *)

\* initial_balance of FastPerpetualExchange.__init__, in USDT
AccountBalances == {-100, 0, 1, 700, 1000, 200000}

\* (long, short) quantities held, entered at the price of AccountEntry
AccountPositions == {<<0, 0>>, <<30, 0>>, <<30, 30>>}

AccountEntry == 2500 * DecScale

\* mark prices of one lot, in 1/DecScale USDT
AccountPrices == {1, 100, 1000, 2500 * DecScale}

\* FastPerpetualExchange.__init__ with a balance, and the sides as opening
\* fills leave them
AccountExchange(maker_fee, initial_balance, position) ==
    [NewExchange(maker_fee) EXCEPT
        !.balance = initial_balance * DecScale,
        !.long_position = position[1],
        !.long_entry_price = IF position[1] > 0 THEN AccountEntry ELSE 0,
        !.short_position = position[2],
        !.short_entry_price = IF position[2] > 0 THEN AccountEntry ELSE 0]

AccountSetCurrentPrice ==
    \E price \in AccountPrices :
        /\ last.op = "init"
        /\ ex' = set_current_price(ex, price)
        /\ last' = Call("set_current_price", [NoArgs EXCEPT !.price = price], FALSE, 0)
        /\ prev' = last
        /\ steps' = steps + 1
        /\ UNCHANGED <<strategy, run>>

\* strategy.calculate_dynamic_order_size(exchange.current_price); ret is the
\* quantity returned
CalculateDynamicOrderSize ==
    /\ last.op = "set_current_price"
    /\ last' = Call("calculate_dynamic_order_size",
                    [NoArgs EXCEPT !.price = ex.current_price],
                    calculate_dynamic_order_size(ex, ex.current_price), 0)
    /\ prev' = last
    /\ steps' = steps + 1
    /\ UNCHANGED <<ex, strategy, run>>

\* exchange.check_and_handle_liquidation(timestamp) after the mark price
AccountCheckLiquidation ==
    /\ last.op = "set_current_price"
    /\ LET r == check_and_handle_liquidation(ex, StartTime)
       IN  /\ ex' = r.ex
           /\ last' = Call("check_and_handle_liquidation",
                           [NoArgs EXCEPT !.timestamp = StartTime], r.ret, 0)
    /\ prev' = last
    /\ steps' = steps + 1
    /\ UNCHANGED <<strategy, run>>

----------------------------------------------------------------------------
(* A VolatilityMonitor of a short period takes one candle a minute.        *)

MaxMonitorUpdates == 103

\* atr_period of VolatilityMonitor.__init__
MonitorPeriods == {0, 1, 2}

\* the candle series fed: calm, or ranges that differ from candle to candle
MonitorSeries == {"calm", "swinging"}

\* the n-th candle of a series, n = 1, 2, ...
MonitorCandle(series, n) ==
    [timestamp |-> StartTime + 60 * n,
     high |-> IF series = "calm" THEN 2500 * DecScale
              ELSE (2500 + 100 * (n % 4)) * DecScale,
     low |-> IF series = "calm" THEN 2500 * DecScale
             ELSE (2500 - 50 * (n % 3)) * DecScale,
     close |-> 2500 * DecScale]

\* an exchange that holds a monitor of the period
MonitorExchange(atr_period) ==
    [NewExchange(0) EXCEPT !.volatility_monitor = VolatilityMonitorOf(atr_period)]

\* volatility_monitor.update_price(timestamp, high, low, close) with the
\* next candle of the series
MonitorUpdatePrice ==
    /\ steps < MaxMonitorUpdates
    /\ LET candle == MonitorCandle(run.series, steps + 1)
       IN  /\ ex' = [ex EXCEPT !.volatility_monitor =
                        update_price(@, candle.timestamp, candle.high,
                                     candle.low, candle.close)]
           /\ last' = Call("update_price",
                           [NoArgs EXCEPT !.high = candle.high, !.low = candle.low,
                                          !.price = candle.close,
                                          !.timestamp = candle.timestamp],
                           FALSE, 0)
    /\ prev' = last
    /\ steps' = steps + 1
    /\ UNCHANGED <<strategy, run>>

----------------------------------------------------------------------------
(* The decision cycles of the main loop on an exchange whose volatility    *)
(* monitor stays at the level its last candle left: the sub-points of the  *)
(* candles that follow, 12 seconds apart, each with its mark price, its    *)
(* liquidation check, its decision cycle and its match.                    *)

MaxCycles == 5

\* (long, short) quantities opened before the first cycle
CyclePositions ==
    {<<0, 0>>, <<10, 0>>, <<0, 10>>, <<30, 0>>, <<30, 10>>, <<10, 30>>, <<10, 10>>}

\* mark prices of the sub-points
CyclePrices == {2500 * DecScale, 2510 * DecScale}

\* the first sub-point after the two candles of the monitor
CycleStart == StartTime + 120

\* run.rebalanced counts the decision cycles in a row, up to the last one,
\* that returned the rebalancing orders
NewCycleRun ==
    [pc |-> "price", enable_position_stop_loss |-> EnablePositionStopLoss,
     n |-> 0, sub_timestamp |-> CycleStart, rebalanced |-> 0]

\* exchange.set_current_price(current_price_decimal)
CycleSetCurrentPrice ==
    \E price \in CyclePrices :
        /\ run.pc = "price"
        /\ run.n < MaxCycles
        /\ ex' = set_current_price(ex, price)
        /\ last' = Call("set_current_price", [NoArgs EXCEPT !.price = price], FALSE, 0)
        /\ run' = [run EXCEPT !.pc = "liquidation",
                              !.sub_timestamp = CycleStart + 12 * run.n]
        /\ prev' = last
        /\ UNCHANGED <<strategy, steps>>

CycleCheckLiquidation ==
    /\ run.pc = "liquidation"
    /\ LET r == check_and_handle_liquidation(ex, run.sub_timestamp)
       IN  /\ ex' = r.ex
           /\ run' = [run EXCEPT !.pc = liquidation_check_step(r.ret).pc]
           /\ last' = Call("check_and_handle_liquidation",
                           [NoArgs EXCEPT !.timestamp = run.sub_timestamp], r.ret, 0)
    /\ prev' = last
    /\ UNCHANGED <<strategy, steps>>

\* orders = strategy.generate_orders(...) and the submit step
CycleGenerateOrders ==
    /\ run.pc = "orders"
    /\ LET g == generate_orders(ex, strategy, run.enable_position_stop_loss,
                                ex.current_price, run.sub_timestamp)
           balance_orders == check_position_balance(ex, ex.current_price)
           rebalances ==
               /\ check_position_stop_loss(ex, run.enable_position_stop_loss,
                                           ex.current_price) = <<>>
               /\ balance_orders # <<>>
       IN  /\ strategy' = g.strategy
           /\ ex' = submit_orders(ex, g.orders)
           /\ run' = [run EXCEPT !.pc = "match",
                                 !.rebalanced = IF rebalances THEN @ + 1 ELSE 0]
           /\ last' = Call("generate_orders",
                           [NoArgs EXCEPT !.price = ex.current_price,
                                          !.orders = g.orders,
                                          !.timestamp = run.sub_timestamp],
                           FALSE, 0)
    /\ prev' = last
    /\ UNCHANGED steps

\* exchange.fast_order_matching(high_decimal, low_decimal, sub_timestamp)
\* with the running high and low of the candle, which hold the mark price
\* between them
CycleOrderMatching ==
    \E high \in CyclePrices, low \in CyclePrices :
        /\ run.pc = "match"
        /\ low <= ex.current_price
        /\ ex.current_price <= high
        /\ LET r == fast_order_matching(ex, high, low, run.sub_timestamp)
           IN  /\ ex' = r.ex
               /\ last' = Call("fast_order_matching",
                               [NoArgs EXCEPT !.high = high, !.low = low,
                                              !.timestamp = run.sub_timestamp],
                               FALSE, r.ret)
        /\ run' = [run EXCEPT !.pc = "price", !.n = @ + 1]
        /\ prev' = last
        /\ UNCHANGED <<strategy, steps>>

----------------------------------------------------------------------------
(* Spec: the ledger.  A new exchange takes any sequence of mark prices,    *)
(* fills, liquidation checks and market flattens.                          *)

Init ==
    /\ \E maker_fee \in MakerFees : ex = NewExchange(maker_fee)
    /\ strategy = NewStrategy
    /\ run = NewRun(FALSE)
    /\ last = NoCall(ex)
    /\ prev = NoCall(ex)
    /\ steps = 0

Next ==
    \/ SetCurrentPrice
    \/ ExecuteFastTrade
    \/ CheckAndHandleLiquidation
    \/ CloseAllPositionsMarket

Spec == Init /\ [][Next]_vars

----------------------------------------------------------------------------
(* SpecBook: the order lists.  An exchange that is flat or holds a long    *)
(* and a short takes any sequence of order batches and matching calls.     *)

\* the exchange after its first mark price and, if hedged, one opening fill
\* on each side
BookExchange(maker_fee, hedged) ==
    LET e0 == set_current_price(NewExchange(maker_fee), 2500 * DecScale)
    IN  IF hedged
        THEN execute_fast_trade(
                 execute_fast_trade(e0, "buy_long", 10, 2500 * DecScale, StartTime),
                 "sell_short", 10, 2525 * DecScale, StartTime)
        ELSE e0

InitBook ==
    /\ \E maker_fee \in MakerFees, hedged \in BOOLEAN :
          ex = BookExchange(maker_fee, hedged)
    /\ strategy = NewStrategy
    /\ run = NewRun(FALSE)
    /\ last = NoCall(ex)
    /\ prev = NoCall(ex)
    /\ steps = 0

NextBook ==
    \/ PlaceOrdersBatch
    \/ FastOrderMatching

SpecBook == InitBook /\ [][NextBook]_vars

----------------------------------------------------------------------------
(* SpecRun: the backtest.  A new exchange and a new strategy are driven    *)
(* through any sequence of candles, with the risk stop enabled or not.     *)

InitRun ==
    /\ \E maker_fee \in MakerFees : ex = NewExchange(maker_fee)
    /\ strategy = NewStrategy
    /\ \E enable_stop_loss \in BOOLEAN, data_length \in 1..MaxCandles :
          run = [NewRun(enable_stop_loss) EXCEPT !.data_length = data_length]
    /\ last = NoCall(ex)
    /\ prev = NoCall(ex)
    /\ steps = 0

NextRun ==
    \/ RunNextCandle
    \/ RunSetCurrentPrice
    \/ RunCheckLiquidation
    \/ RunGenerateOrders
    \/ RunOrderMatching
    \/ RunCloseCandle
    \/ RunReturn

SpecRun == InitRun /\ [][NextRun]_vars

----------------------------------------------------------------------------
(* SpecTrajectory: one call of one of the three trajectory functions on    *)
(* any candle and any previous close.                                      *)

InitTrajectory ==
    /\ ex = NewExchange(0)
    /\ strategy = NewStrategy
    /\ \E candle \in AllCandles, prev_close \in PriceLevels :
          run = [NewRun(FALSE) EXCEPT !.candle = candle, !.prev_close = prev_close]
    /\ last = NoCall(ex)
    /\ prev = NoCall(ex)
    /\ steps = 0

NextTrajectory ==
    \/ GetPriceTrajectory
    \/ GetPriceTrajectoryOptimized
    \/ GetPriceTrajectoryVectorized

SpecTrajectory == InitTrajectory /\ [][NextTrajectory]_vars

----------------------------------------------------------------------------
(* SpecRebate: an exchange with the fee rebate enabled and its first mark  *)
(* price set takes any sequence of fills, closes and rebate calls at       *)
(* instants that do not go back.                                           *)

InitRebate ==
    /\ \E maker_fee \in MakerFees :
          ex = set_current_price([NewExchange(maker_fee) EXCEPT !.use_fee_rebate = TRUE],
                                 2500 * DecScale)
    /\ strategy = NewStrategy
    /\ run = NewRebateRun
    /\ last = NoCall(ex)
    /\ prev = NoCall(ex)
    /\ steps = 0

NextRebate ==
    \/ ProcessFeeRebate
    \/ ExecuteFastTradeAt
    \/ CloseAllPositionsMarketAt
    \/ SetPriceAndCheckLiquidation

SpecRebate == InitRebate /\ [][NextRebate]_vars

----------------------------------------------------------------------------
(* SpecConfig: an exchange and a strategy constructed under a configured   *)
(* leverage, with the position stop-loss enabled or not, are driven        *)
(* through the sub-points of a run.                                        *)

InitConfig ==
    /\ \E maker_fee \in MakerFees, leverage \in Leverages,
          enable_position_stop_loss \in BOOLEAN :
          /\ ex = NewExchangeWith(maker_fee, leverage)
          /\ run = NewConfigRun(leverage, enable_position_stop_loss)
    /\ strategy = NewStrategy
    /\ last = NoCall(ex)
    /\ prev = NoCall(ex)
    /\ steps = 0

NextConfig ==
    \/ ConfigSetCurrentPrice
    \/ ConfigCheckLiquidation
    \/ ConfigGenerateOrders
    \/ ConfigOrderMatching

SpecConfig == InitConfig /\ [][NextConfig]_vars

----------------------------------------------------------------------------
(* SpecStrategy: a new strategy on an exchange after its first mark price  *)
(* and the first candle of its monitor, with the position stop-loss        *)
(* enabled or not, takes any sequence of mark prices, fills, candles and   *)
(* decision cycles.                                                        *)

StrategyExchange(maker_fee) ==
    update_volatility_monitor(
        set_current_price(NewExchange(maker_fee), 2500 * DecScale),
        StartTime, 2500 * DecScale, 2500 * DecScale, 2500 * DecScale)

InitStrategy ==
    /\ \E maker_fee \in MakerFees : ex = StrategyExchange(maker_fee)
    /\ strategy = NewStrategy
    /\ \E enable_position_stop_loss \in BOOLEAN :
          run = NewStrategyRun(enable_position_stop_loss)
    /\ last = NoCall(ex)
    /\ prev = NoCall(ex)
    /\ steps = 0

NextStrategy ==
    \/ StrategySetCurrentPrice
    \/ StrategyFill
    \/ StrategyUpdateVolatility
    \/ StrategyGenerateOrders

SpecStrategy == InitStrategy /\ [][NextStrategy]_vars

----------------------------------------------------------------------------
(* SpecAccount: an account of any balance, flat, long or hedged, has its   *)
(* mark price set; then the strategy sizes one order on it, or the         *)
(* exchange makes one liquidation check.                                   *)

InitAccount ==
    /\ \E maker_fee \in MakerFees, initial_balance \in AccountBalances,
          position \in AccountPositions :
          ex = AccountExchange(maker_fee, initial_balance, position)
    /\ strategy = NewStrategy
    /\ run = NewRun(FALSE)
    /\ last = NoCall(ex)
    /\ prev = NoCall(ex)
    /\ steps = 0

NextAccount ==
    \/ AccountSetCurrentPrice
    \/ CalculateDynamicOrderSize
    \/ AccountCheckLiquidation

SpecAccount == InitAccount /\ [][NextAccount]_vars

----------------------------------------------------------------------------
(* SpecMonitor: a new VolatilityMonitor of a short period takes the        *)
(* candles of a series one after the other.                                *)

InitMonitor ==
    /\ \E atr_period \in MonitorPeriods : ex = MonitorExchange(atr_period)
    /\ strategy = NewStrategy
    /\ \E series \in MonitorSeries : run = [series |-> series]
    /\ last = NoCall(ex)
    /\ prev = NoCall(ex)
    /\ steps = 0

NextMonitor == MonitorUpdatePrice

SpecMonitor == InitMonitor /\ [][NextMonitor]_vars

----------------------------------------------------------------------------
(* SpecCycle: an exchange that holds a position, or none, and whose        *)
(* volatility monitor has just taken a candle with a range of 32% of its   *)
(* close is driven through the sub-points that follow.  The loop goes on   *)
(* from one step to the next until the data ends or the account is         *)
(* liquidated, hence the weak fairness of its steps.                       *)

CycleExchange(maker_fee, position) ==
    LET e0 == StrategyExchange(maker_fee)
        e1 == IF position[1] > 0
              THEN execute_fast_trade(e0, "buy_long", position[1],
                                      2500 * DecScale, StartTime)
              ELSE e0
        e2 == IF position[2] > 0
              THEN execute_fast_trade(e1, "sell_short", position[2],
                                      2500 * DecScale, StartTime)
              ELSE e1
    IN  update_volatility_monitor(e2, StartTime + 60, 3000 * DecScale,
                                  2200 * DecScale, 2500 * DecScale)

InitCycle ==
    /\ \E maker_fee \in MakerFees, position \in CyclePositions :
          ex = CycleExchange(maker_fee, position)
    /\ strategy = NewStrategy
    /\ run = NewCycleRun
    /\ last = NoCall(ex)
    /\ prev = NoCall(ex)
    /\ steps = 0

NextCycle ==
    \/ CycleSetCurrentPrice
    \/ CycleCheckLiquidation
    \/ CycleGenerateOrders
    \/ CycleOrderMatching

SpecCycle == InitCycle /\ [][NextCycle]_vars /\ WF_vars(NextCycle)

----------------------------------------------------------------------------
(* What the properties are stated in: the quantities of section 3 of the   *)
(* specification, written out from its formulas.                           *)

pre == last.pre

Called(op) == last.op = op

\* equity = balance + longQty*(mark - longEntry) + shortQty*(shortEntry - mark)
EquityOf(e) ==
    e.balance + e.long_position * (e.current_price - e.long_entry_price)
              + e.short_position * (e.short_entry_price - e.current_price)

\* net notional |longQty - shortQty| * mark
NetNotionalOf(e) ==
    IF e.long_position >= e.short_position
    THEN (e.long_position - e.short_position) * e.current_price
    ELSE (e.short_position - e.long_position) * e.current_price

\* the tier of a notional of usdt whole USDT: its bound covers the notional,
\* no lower bound does
TierOf(usdt) ==
    CHOOSE i \in 1..Len(ETH_USDC_TIERS) :
        /\ ETH_USDC_TIERS[i][1] = Infinity \/ usdt <= ETH_USDC_TIERS[i][1]
        /\ \A j \in 1..(i - 1) : usdt > ETH_USDC_TIERS[j][1]

\* netNotional * mmRate - subtrahend of the tier of the net notional; the
\* mark prices of Spec and SpecRun are whole USDT, so the product is exact
MaintenanceMarginOf(e) ==
    LET usdt == NetNotionalOf(e) \div DecScale
        t == ETH_USDC_TIERS[TierOf(usdt)]
    IN  usdt * t[3] - t[4] * DecScale

\* price * qty * rate for a whole-USDT notional
FeeOf(qty, price, rate) == ((qty * price) \div DecScale) * rate

\* the trade records the last call appended
Appended ==
    SubSeq(ex.trade_history, Len(pre.trade_history) + 1, Len(ex.trade_history))

AsOrder(r) == [price |-> r.price, amount |-> r.amount, side |-> r.side]

Count(o, list) == Cardinality({i \in 1..Len(list) : list[i] = o})

CountTrades(o, records) ==
    Cardinality({i \in 1..Len(records) : AsOrder(records[i]) = o})

Range(list) == {list[i] : i \in 1..Len(list)}

----------------------------------------------------------------------------
(* Properties of Spec *)

\* C1: check_and_handle_liquidation returns True if and only if a long or
\* a short quantity is non-zero and 0 < equity <= maintenance margin of the
\* net notional (equality and tier bounds included); otherwise it returns
\* False.
C1_LiquidationIff ==
    Called("check_and_handle_liquidation") =>
        (last.ret <=>
            /\ pre.long_position # 0 \/ pre.short_position # 0
            /\ 0 < EquityOf(pre)
            /\ EquityOf(pre) <= MaintenanceMarginOf(pre))

\* a liquidation at equity = maintenance margin, net notional on the bound
\* of the first tier
C1_Witness ==
    /\ Called("check_and_handle_liquidation")
    /\ last.ret
    /\ EquityOf(pre) = MaintenanceMarginOf(pre)
    /\ NetNotionalOf(pre) = ETH_USDC_TIERS[1][1] * DecScale

\* C3: right after check_and_handle_liquidation returned True both
\* quantities and both entry prices are 0, balance and equity are 0, both
\* order lists are empty, the taker fees of the forced closes have been
\* added to total_fees_paid and exactly one LiquidationEvent (timestamp,
\* equity before the forced close, mark price) has been appended.
C3_AfterLiquidation ==
    (Called("check_and_handle_liquidation") /\ last.ret) =>
        /\ ex.long_position = 0 /\ ex.short_position = 0
        /\ ex.long_entry_price = 0 /\ ex.short_entry_price = 0
        /\ ex.balance = 0
        /\ EquityOf(ex) = 0
        /\ ex.active_buy_orders = <<>> /\ ex.active_sell_orders = <<>>
        /\ ex.total_fees_paid =
              pre.total_fees_paid
                + FeeOf(pre.long_position, pre.current_price, TakerFee)
                + FeeOf(pre.short_position, pre.current_price, TakerFee)
        /\ ex.liquidation_events =
              Append(pre.liquidation_events,
                     [timestamp |-> last.args.timestamp,
                      equity |-> EquityOf(pre),
                      price |-> pre.current_price])

\* C4: every execute_fast_trade call leaves balance = balance before - fee
\* + realized PnL, fee = price*qty*makerRate, realized PnL 0 for buy_long
\* and sell_short, min(qty, heldLong)*(price - longEntry) for sell_long,
\* min(qty, heldShort)*(shortEntry - price) for buy_short, and writes
\* that fee and that PnL to the trade record it appends.
C4_LedgerPerTrade ==
    Called("execute_fast_trade") =>
        LET a == last.args
            fee == FeeOf(a.amount, a.price, pre.maker_fee)
            held == IF a.side = "sell_long" THEN pre.long_position
                    ELSE pre.short_position
            qty == IF a.amount <= held THEN a.amount ELSE held
            pnl == IF a.side = "sell_long"
                   THEN qty * (a.price - pre.long_entry_price)
                   ELSE IF a.side = "buy_short"
                   THEN qty * (pre.short_entry_price - a.price)
                   ELSE 0
        IN  /\ ex.balance = pre.balance - fee + pnl
            /\ Len(ex.trade_history) = Len(pre.trade_history) + 1
            /\ ex.trade_history[Len(ex.trade_history)].fee = fee
            /\ ex.trade_history[Len(ex.trade_history)].pnl = pnl

\* a closing fill larger than the held quantity, with a fee and a PnL
C4_Witness ==
    /\ Called("execute_fast_trade")
    /\ last.args.side = "sell_long"
    /\ pre.long_position > 0
    /\ last.args.amount > pre.long_position
    /\ ex.trade_history[Len(ex.trade_history)].fee > 0
    /\ ex.trade_history[Len(ex.trade_history)].pnl > 0

PositionOf(e, side) ==
    IF side \in {"buy_long", "sell_long"} THEN e.long_position ELSE e.short_position

EntryOf(e, side) ==
    IF side \in {"buy_long", "sell_long"} THEN e.long_entry_price
    ELSE e.short_entry_price

\* the last two calls were fills of the same opening side with positive
\* amounts, the first of them on a flat side
TwoOpeningFills ==
    /\ prev.op = "execute_fast_trade" /\ Called("execute_fast_trade")
    /\ prev.args.side \in {"buy_long", "sell_short"}
    /\ last.args.side = prev.args.side
    /\ PositionOf(prev.pre, prev.args.side) = 0
    /\ prev.args.amount > 0
    /\ last.args.amount > 0

\* C5: from a flat side, after two same-side opening fills (q1,p1),
\* (q2,p2) the entry price of the side is (q1*p1 + q2*p2)/(q1 + q2), to
\* the last digit of the arithmetic (half a unit).
C5_WeightedEntry ==
    TwoOpeningFills =>
        LET entry == EntryOf(ex, last.args.side)
            total == prev.args.amount * prev.args.price
                       + last.args.amount * last.args.price
            qty == prev.args.amount + last.args.amount
        IN  /\ 2 * (entry * qty - total) <= qty
            /\ 2 * (total - entry * qty) <= qty

\* two opening fills at different prices whose average is not a whole
\* number of units
C5_Witness ==
    /\ TwoOpeningFills
    /\ prev.args.price # last.args.price
    /\ (prev.args.amount * prev.args.price + last.args.amount * last.args.price)
         % (prev.args.amount + last.args.amount) # 0

\* the last two calls were an opening fill of q > 0 on a flat side and a
\* closing fill of the same side of at least q
OpenThenClose ==
    /\ prev.op = "execute_fast_trade" /\ Called("execute_fast_trade")
    /\ PositionOf(prev.pre, prev.args.side) = 0
    /\ prev.args.amount > 0
    /\ last.args.amount >= prev.args.amount
    /\ \/ prev.args.side = "buy_long" /\ last.args.side = "sell_long"
       \/ prev.args.side = "sell_short" /\ last.args.side = "buy_short"

\* C6: from a flat side, an opening fill of q > 0 followed by a closing
\* fill of the same side of at least q leaves the side's quantity and
\* entry price at 0; and every closing fill that brings the quantity of an
\* open side to 0 resets its entry price to 0.
C6_OpenCloseFlat ==
    /\ OpenThenClose =>
          /\ PositionOf(ex, last.args.side) = 0
          /\ EntryOf(ex, last.args.side) = 0
    /\ (Called("execute_fast_trade")
          /\ last.args.side \in {"sell_long", "buy_short"}
          /\ PositionOf(pre, last.args.side) > 0
          /\ PositionOf(ex, last.args.side) = 0)
          => EntryOf(ex, last.args.side) = 0

\* a short opened and then bought back with a larger order
C6_Witness ==
    /\ OpenThenClose
    /\ prev.args.side = "sell_short"
    /\ last.args.amount > prev.args.amount
    /\ pre.short_entry_price > 0

\* a liquidation on an account whose flat side kept the entry price of a
\* fill of amount 0
C3_StaleEntry ==
    /\ Called("check_and_handle_liquidation")
    /\ last.ret
    /\ pre.short_position = 0 /\ pre.short_entry_price # 0
    /\ ex.short_entry_price # 0

\* C7: in every state reached by execute_fast_trade calls (amount >= 0),
\* liquidations and market flattens, both quantities are >= 0 and the
\* entry price of a side is 0 if and only if its quantity is 0.
C7_EntryIffQuantity ==
    /\ ex.long_position >= 0
    /\ ex.short_position >= 0
    /\ ex.long_entry_price = 0 <=> ex.long_position = 0
    /\ ex.short_entry_price = 0 <=> ex.short_position = 0

\* C8: in fast_order_matching(high, low, ts) a resting buy order at B is
\* filled if and only if low <= B and a resting sell order at A if and
\* only if high >= A, whatever else rests.
C8_FillIff ==
    Called("fast_order_matching") =>
        /\ \A o \in Range(pre.active_buy_orders) :
              CountTrades(o, Appended) =
                  IF last.args.low <= o.price
                  THEN Count(o, pre.active_buy_orders) ELSE 0
        /\ \A o \in Range(pre.active_sell_orders) :
              CountTrades(o, Appended) =
                  IF last.args.high >= o.price
                  THEN Count(o, pre.active_sell_orders) ELSE 0

\* a match that fills an order resting exactly at the low and leaves
\* another buy order unfilled
C8_Witness ==
    /\ Called("fast_order_matching")
    /\ \E o \in Range(pre.active_buy_orders) :
          o.price = last.args.low /\ CountTrades(o, Appended) = 1
    /\ \E o \in Range(pre.active_buy_orders) :
          o.price < last.args.low /\ CountTrades(o, Appended) = 0

\* C9: one fast_order_matching call partitions the resting orders: each is
\* either executed once (one trade record) and removed, or not executed
\* and still resting unchanged; none is both, none vanishes without a
\* trade record, and the returned count is the number of records appended.
C9_MatchPartition ==
    Called("fast_order_matching") =>
        LET before == pre.active_buy_orders \o pre.active_sell_orders
            after == ex.active_buy_orders \o ex.active_sell_orders
        IN  /\ \A o \in Range(before) \cup Range(after)
                          \cup {AsOrder(r) : r \in Range(Appended)} :
                  Count(o, before) = CountTrades(o, Appended) + Count(o, after)
            /\ last.filled = Len(Appended)

\* a match of two resting buy orders: the one at the low filled, the
\* other left
C9_Witness ==
    /\ Called("fast_order_matching")
    /\ last.filled = 1
    /\ Len(pre.active_buy_orders) = 2 /\ Len(ex.active_buy_orders) = 1
    /\ pre.active_buy_orders[1].price = last.args.low

\* C10: after place_orders_batch(orders) the two lists together hold
\* exactly the orders of the batch, buy_long and buy_short orders in the
\* buy list by descending price, all others in the sell list by ascending
\* price.
C10_BatchReplaces ==
    Called("place_orders_batch") =>
        LET after == ex.active_buy_orders \o ex.active_sell_orders
            buy == ex.active_buy_orders
            sell == ex.active_sell_orders
        IN  /\ \A o \in Range(after) \cup Range(last.args.orders) :
                  Count(o, after) = Count(o, last.args.orders)
            /\ \A o \in Range(buy) : o.side \in {"buy_long", "buy_short"}
            /\ \A o \in Range(sell) : o.side \notin {"buy_long", "buy_short"}
            /\ \A i \in 1..(Len(buy) - 1) : buy[i].price >= buy[i + 1].price
            /\ \A i \in 1..(Len(sell) - 1) : sell[i].price <= sell[i + 1].price

\* a batch placed over resting orders it does not contain, its two buy
\* orders given in ascending price
C10_Witness ==
    /\ Called("place_orders_batch")
    /\ \E o \in Range(pre.active_buy_orders \o pre.active_sell_orders) :
          o \notin Range(last.args.orders)
    /\ Len(last.args.orders) = 2
    /\ is_buy_side(last.args.orders[1].side)
    /\ is_buy_side(last.args.orders[2].side)
    /\ last.args.orders[1].price < last.args.orders[2].price

\* gross notional (longQty + shortQty) * mark
GrossNotionalOf(e) == (e.long_position + e.short_position) * e.current_price

\* min(max leverage of the tier of the gross notional, configured leverage)
EffectiveLeverageOf(e) ==
    Min(ETH_USDC_TIERS[TierOf(GrossNotionalOf(e) \div DecScale)][2], Leverage)

C14_UsedMarginAtMark ==
    /\ get_used_margin(ex) = DecDiv(GrossNotionalOf(ex), EffectiveLeverageOf(ex))
    /\ get_available_margin(ex) =
          EquityOf(ex) - DecDiv(GrossNotionalOf(ex), EffectiveLeverageOf(ex))

\* the exchange that holds only the net quantity of e, on the side it is on
Netted(e) ==
    [e EXCEPT !.long_position = Max(e.long_position - e.short_position, 0),
              !.short_position = Max(e.short_position - e.long_position, 0)]

\* C15: get_maintenance_margin takes the first tier whose bound is >= the
\* net notional |longQty - shortQty| * mark and returns netNotional * mmRate
\* - subtrahend, not clamped; it is the same for the exchange that holds
\* only the net quantity at the same mark, whatever the gross notional and
\* the leverage tier.
C15_MaintenanceOnNet ==
    /\ get_maintenance_margin(ex) = MaintenanceMarginOf(ex)
    /\ get_maintenance_margin(ex) = get_maintenance_margin(Netted(ex))

\* both sides open, the gross notional in the second leverage tier and the
\* net notional in the first
C15_Witness ==
    /\ ex.long_position > 0 /\ ex.short_position > 0
    /\ ex.long_position # ex.short_position
    /\ get_current_leverage_tier(ex) = ETH_USDC_TIERS[2]
    /\ get_current_leverage_tier(Netted(ex)) = ETH_USDC_TIERS[1]
    /\ get_maintenance_margin(ex) > 0

\* C23: close_all_positions_market with an open position sets both
\* quantities and both entry prices to 0, changes the balance by each side's
\* unrealized PnL at the mark minus a taker fee on its notional (equity after
\* = equity before - the fees) and adds the fees to total_fees_paid; it leaves
\* the resting orders and the liquidation log as they are; with both
\* quantities 0 it changes nothing.
C23_CloseAllPositions ==
    Called("close_all_positions_market") =>
        IF pre.long_position = 0 /\ pre.short_position = 0
        THEN ex = pre
        ELSE LET fees == FeeOf(pre.long_position, pre.current_price, TakerFee)
                           + FeeOf(pre.short_position, pre.current_price, TakerFee)
             IN  /\ ex.long_position = 0 /\ ex.short_position = 0
                 /\ ex.long_entry_price = 0 /\ ex.short_entry_price = 0
                 /\ ex.balance = EquityOf(pre) - fees
                 /\ EquityOf(ex) = EquityOf(pre) - fees
                 /\ ex.total_fees_paid = pre.total_fees_paid + fees
                 /\ ex.active_buy_orders = pre.active_buy_orders
                 /\ ex.active_sell_orders = pre.active_sell_orders
                 /\ ex.liquidation_events = pre.liquidation_events

\* the same without the entry price of a side that was flat before the call
C23_CloseAllOpenSides ==
    Called("close_all_positions_market") =>
        IF pre.long_position = 0 /\ pre.short_position = 0
        THEN ex = pre
        ELSE LET fees == FeeOf(pre.long_position, pre.current_price, TakerFee)
                           + FeeOf(pre.short_position, pre.current_price, TakerFee)
             IN  /\ ex.long_position = 0 /\ ex.short_position = 0
                 /\ pre.long_position > 0 => ex.long_entry_price = 0
                 /\ pre.short_position > 0 => ex.short_entry_price = 0
                 /\ ex.balance = EquityOf(pre) - fees
                 /\ ex.total_fees_paid = pre.total_fees_paid + fees
                 /\ ex.liquidation_events = pre.liquidation_events

\* a close of a long and a short away from the mark that leaves a balance
C23_BothClosed ==
    /\ Called("close_all_positions_market")
    /\ pre.long_position > 0 /\ pre.short_position > 0
    /\ pre.long_entry_price # pre.current_price
    /\ ex.long_position = 0 /\ ex.short_position = 0
    /\ ex.balance > 0 /\ ex.balance # pre.balance

----------------------------------------------------------------------------
(* Properties of SpecRun *)

OpenAccount(a) == a.long_position # 0 \/ a.short_position # 0

\* a position is open and equity <= maintenance margin of the net notional
AtOrBelowMaintenance(a) ==
    OpenAccount(a) /\ EquityOf(a) <= MaintenanceMarginOf(a)

\* a position is open and 0 < equity <= maintenance margin of the net
\* notional
WithinMaintenance(a) ==
    OpenAccount(a) /\ 0 < EquityOf(a) /\ EquityOf(a) <= MaintenanceMarginOf(a)

\* the sub-points of the run so far at whose liquidation check Due held
DueChecks(Due(_)) == {k \in 1..Len(run.checks) : Due(run.checks[k])}

\* the liquidation log holds one event, stamped with the first sub-point
\* of due, or no event if due is empty
OneEventAtFirst(due) ==
    IF due = {} THEN ex.liquidation_events = <<>>
    ELSE LET first == CHOOSE k \in due : \A m \in due : k <= m
         IN  /\ Len(ex.liquidation_events) = 1
             /\ ex.liquidation_events[1].timestamp = run.checks[first].timestamp

\* C2, as stated: in a run a LiquidationEvent is recorded at the first
\* sub-point at which a position is open and equity <= maintenance margin
\* of the net notional, at no earlier sub-point, and the liquidation log of
\* the run holds exactly that one event.
C2_EventAtFirstBelow == OneEventAtFirst(DueChecks(AtOrBelowMaintenance))

\* C2, amended: in a run a LiquidationEvent is recorded at the first
\* sub-point at which a position is open and 0 < equity <= maintenance
\* margin of the net notional, at no earlier sub-point and at no sub-point
\* where the equity is zero or less, and the liquidation log of the run
\* never holds more than that one event.
C2_EventAtFirstWithin == OneEventAtFirst(DueChecks(WithinMaintenance))

\* a run whose position was open and safe at one sub-point, lost equity to
\* the next and was liquidated there
C2_Witness ==
    /\ Len(ex.liquidation_events) = 1
    /\ \E k \in 2..Len(run.checks) :
          /\ WithinMaintenance(run.checks[k])
          /\ OpenAccount(run.checks[k - 1])
          /\ ~AtOrBelowMaintenance(run.checks[k - 1])
          /\ EquityOf(run.checks[k]) < EquityOf(run.checks[k - 1])
          /\ ex.liquidation_events[1].timestamp = run.checks[k].timestamp

\* a run whose position was open and safe at one sub-point and whose equity
\* was below zero at the next
C2_GapBelowZero ==
    \E k \in 2..Len(run.checks) :
        /\ OpenAccount(run.checks[k]) /\ EquityOf(run.checks[k]) <= 0
        /\ OpenAccount(run.checks[k - 1])
        /\ ~AtOrBelowMaintenance(run.checks[k - 1])
        /\ ex.liquidation_events = <<>>

\* the resting orders of e, both lists
RestingOrders(e) == e.active_buy_orders \o e.active_sell_orders

\* list holds exactly the orders of batch, each as often
SameOrders(list, batch) ==
    \A o \in Range(list) \cup Range(batch) : Count(o, list) = Count(o, batch)

SubPointOf(call) ==
    run.price_trajectory[(call.args.timestamp - run.kline_timestamp) \div 12 + 1]

\* no sub-point of the candle is left to process: all five are done, or
\* the liquidation check of one has returned True
SubPointsOver ==
    \/ prev.op = "fast_order_matching"
         /\ prev.args.timestamp = run.kline_timestamp + 12 * 4
    \/ prev.op = "check_and_handle_liquidation" /\ prev.ret

\* C18: in every processed sub-point the steps come in the order set mark
\* price, liquidation check, generate_orders with the submit, match against
\* the running high and low of that sub-point; the end of the candle
\* (VolatilityMonitor update, equity sample, risk check) comes only after
\* the last sub-point of the candle; no order is generated or matched at a
\* sub-point before the liquidation check on that sub-point's price.
C18_StepOrder ==
    /\ Called("set_current_price") =>
          prev.op \in {"next_candle", "fast_order_matching"}
    /\ Called("check_and_handle_liquidation") =>
          /\ prev.op = "set_current_price"
          /\ pre.current_price = prev.args.price
          /\ SubPointOf(last)[1] = prev.args.price
    /\ Called("generate_orders") =>
          /\ prev.op = "check_and_handle_liquidation" /\ ~prev.ret
          /\ prev.args.timestamp = last.args.timestamp
          /\ last.args.price = prev.pre.current_price
          /\ SubPointOf(last)[1] = last.args.price
    /\ Called("fast_order_matching") =>
          /\ prev.op = "generate_orders"
          /\ prev.args.timestamp = last.args.timestamp
          /\ last.args.high = SubPointOf(last)[2]
          /\ last.args.low = SubPointOf(last)[3]
    /\ Called("close_candle") =>
          /\ SubPointsOver
          /\ Len(ex.equity_history) = Len(pre.equity_history) + 1
          /\ Len(ex.volatility_monitor.price_history)
               >= Len(pre.volatility_monitor.price_history)
    /\ ~Called("close_candle") =>
          /\ ex.equity_history = pre.equity_history
          /\ ex.volatility_monitor = pre.volatility_monitor

\* the end of a candle after five sub-points that were all processed, with
\* an order filled at the last of them
C18_Witness ==
    /\ Called("close_candle")
    /\ prev.op = "fast_order_matching" /\ prev.filled > 0
    /\ prev.args.timestamp = run.kline_timestamp + 12 * 4
    /\ ~run.liquidated
    /\ ex.equity_history # <<>>

\* C19: once check_and_handle_liquidation has returned True no later
\* sub-point and no later candle is processed: the only step left is the
\* end of the candle, which ends the run, and no mark price is set, no order
\* is generated, placed or matched and no trade record is appended.
C19_LiquidationStops ==
    [][run.liquidated =>
          /\ last'.op \in {"close_candle", "return"}
          /\ run'.pc \in {"done", "returned"}
          /\ ex'.current_price = ex.current_price
          /\ ex'.active_buy_orders = ex.active_buy_orders
          /\ ex'.active_sell_orders = ex.active_sell_orders
          /\ ex'.trade_history = ex.trade_history
          /\ ex'.liquidation_events = ex.liquidation_events
          /\ strategy' = strategy]_vars

\* a run that ended on a liquidation at a sub-point before the last of a
\* candle, with trades before it and candles left
C19_Witness ==
    /\ run.pc = "done" /\ run.liquidated
    /\ Called("close_candle")
    /\ prev.op = "check_and_handle_liquidation" /\ prev.ret
    /\ prev.args.timestamp < run.kline_timestamp + 12 * 4
    /\ run.i < run.data_length
    /\ ex.trade_history # <<>>
    /\ Len(ex.liquidation_events) = 1

\* C20: with the risk stop enabled and no liquidation, at the end of each
\* candle the peak equity becomes the maximum of the peak so far and the
\* equity, and exactly when equity <= the floor or (peak - equity) / peak
\* >= the maximum drawdown all positions are closed at the mark price (both
\* quantities 0) and no further candle is processed.
C20_RiskStopIff ==
    [][(run.pc = "close" /\ run.enable_stop_loss /\ ~run.liquidated) =>
          LET equity == EquityOf(ex)
              peak == Max(run.peak_equity, equity)
              stop == \/ equity <= MinEquity * DecScale
                      \/ peak > 0 /\ 10 * (peak - equity) >= 3 * peak
          IN  /\ run'.peak_equity = peak
              /\ run'.stopped_by_risk = stop
              /\ stop =>
                    /\ ex'.long_position = 0 /\ ex'.short_position = 0
                    /\ ex'.balance =
                          equity - FeeOf(ex.long_position, ex.current_price, TakerFee)
                                 - FeeOf(ex.short_position, ex.current_price, TakerFee)
                    /\ run'.pc = "done"
              /\ ~stop =>
                    /\ ex'.long_position = ex.long_position
                    /\ ex'.short_position = ex.short_position
                    /\ ex'.balance = ex.balance
                    /\ run'.pc = "candle"]_vars

\* a run stopped on drawdown from a peak above the initial balance, with
\* the equity above the floor and a position to close
C20_Witness ==
    /\ Called("close_candle") /\ run.stopped_by_risk
    /\ run.peak_equity > InitialBalance * DecScale
    /\ EquityOf(pre) > MinEquity * DecScale
    /\ pre.long_position + pre.short_position > 0
    /\ ex.long_position = 0 /\ ex.short_position = 0

\* an upper bound of the steps a run has left: 22 for each candle (the
\* candle, four steps at each of five sub-points, the end of the candle)
\* and the return
Remaining ==
    IF run.pc = "returned" THEN 0
    ELSE IF run.pc = "done" THEN 1
    ELSE 1 + 22 * (run.data_length - run.i)
           - (IF run.pc = "candle" THEN 0
              ELSE IF run.pc = "price" THEN 1 + 4 * run.j
              ELSE IF run.pc = "liquidation" THEN 2 + 4 * run.j
              ELSE IF run.pc = "orders" THEN 3 + 4 * run.j
              ELSE IF run.pc = "match" THEN 4 + 4 * run.j
              ELSE 21)

\* the run is at a step of the loop, at the head of the loop with a candle
\* left or none, or behind the loop
StepPossible ==
    \/ run.pc \in {"price", "liquidation", "orders", "match", "close", "done"}
    \/ run.pc = "candle" /\ run.i <= run.data_length /\ Candles # {}

\* the run has returned in exactly one of the three outcomes
OneOutcome ==
    LET completed == /\ ~run.summary.liquidated /\ ~run.summary.stopped_by_risk
                     /\ run.i = run.data_length
    IN  /\ Cardinality({outcome \in {"completed", "liquidated", "risk-stopped"} :
                            \/ outcome = "completed" /\ completed
                            \/ outcome = "liquidated" /\ run.summary.liquidated
                            \/ outcome = "risk-stopped"
                                  /\ run.summary.stopped_by_risk}) = 1
        /\ run.summary.liquidated = (ex.liquidation_events # <<>>)

\* C21: every run over a finite candle sequence terminates: each step
\* takes it nearer to the return and the run is at a step it can take until
\* it has returned; no candle has more than 5 sub-points; liquidated and
\* stopped_by_risk are never both true; the run returns as exactly one of
\* completed (all candles processed), liquidated and risk-stopped, a
\* liquidation being reported as liquidated = true in the summary.
C21_Terminates ==
    /\ [](/\ Remaining >= 0
          /\ run.j <= 5
          /\ ~(run.liquidated /\ run.stopped_by_risk)
          /\ run.pc # "returned" => StepPossible
          /\ run.pc = "returned" => OneOutcome)
    /\ [][Remaining' < Remaining]_vars

\* a run returned as liquidated before its last candle
C21_Witness ==
    /\ run.pc = "returned"
    /\ run.summary.liquidated /\ ~run.summary.stopped_by_risk
    /\ run.i < run.data_length
    /\ run.summary.final_equity = 0

----------------------------------------------------------------------------
(* Properties of SpecTrajectory *)

TrajectoryCalled ==
    last.op \in {"get_price_trajectory", "get_price_trajectory_optimized",
                 "get_price_trajectory_vectorized"}

\* the prices of a trajectory, in order
PricesOf(trajectory) == [n \in 1..Len(trajectory) |-> trajectory[n][1]]

\* C12: each of the three trajectory functions returns exactly 5 samples
\* whose prices are prevClose, open, low, high, close when close >= open
\* and prevClose, open, high, low, close when close < open, and the three
\* return the same sequence for the same candle and previous close.
C12_TrajectoryOrder ==
    TrajectoryCalled =>
        LET k == run.candle
            pc0 == run.prev_close
        IN  /\ Len(run.price_trajectory) = 5
            /\ PricesOf(run.price_trajectory) =
                  IF k.c >= k.o THEN <<pc0, k.o, k.l, k.h, k.c>>
                  ELSE <<pc0, k.o, k.h, k.l, k.c>>
            /\ run.price_trajectory = get_price_trajectory(AsRow(k), pc0)
            /\ run.price_trajectory = get_price_trajectory_optimized(AsRow(k), pc0)
            /\ run.price_trajectory =
                  get_price_trajectory_vectorized(k.o, k.h, k.l, k.c, pc0)

\* the vectorized function on a candle that closes at its open between a
\* lower low and a higher high: the low comes before the high
C12_Witness ==
    /\ last.op = "get_price_trajectory_vectorized"
    /\ run.candle.c = run.candle.o
    /\ run.candle.l < run.candle.o /\ run.candle.o < run.candle.h
    /\ run.price_trajectory[3][1] = run.candle.l
    /\ run.price_trajectory[4][1] = run.candle.h

----------------------------------------------------------------------------
(* Properties of SpecRebate *)

\* the date one month after date, for a day of the month every month has
MonthAfter(date) ==
    IF date.month = 12
    THEN [date EXCEPT !.year = @ + 1, !.month = 1]
    ELSE [date EXCEPT !.month = @ + 1]

\* the date one month before date, for a day of the month every month has
MonthBefore(date) ==
    IF date.month = 1
    THEN [date EXCEPT !.year = @ - 1, !.month = 12]
    ELSE [date EXCEPT !.month = @ - 1]

LeapYear(year) == year % 4 = 0 /\ (year % 100 # 0 \/ year % 400 = 0)

\* the date n days after the first day of month in year, n less than what
\* is left of the year, found by walking the months
RECURSIVE DateInYear(_, _, _)
DateInYear(year, month, n) ==
    LET length == IF month = 2 THEN (IF LeapYear(year) THEN 29 ELSE 28)
                  ELSE IF month \in {4, 6, 9, 11} THEN 30 ELSE 31
    IN  IF n < length THEN [year |-> year, month |-> month, day |-> n + 1]
        ELSE DateInYear(year, month + 1, n - length)

\* the date n days after the first of January of year, found by walking
\* the years
RECURSIVE DateOfDay(_, _)
DateOfDay(year, n) ==
    LET length == IF LeapYear(year) THEN 366 ELSE 365
    IN  IF n < length THEN DateInYear(year, 1, n)
        ELSE DateOfDay(year + 1, n - length)

NowOf(timestamp) ==
    LET date == DateOfDay(2021, timestamp \div 86400)
    IN  [year |-> date.year, month |-> date.month, day |-> date.day,
         second |-> timestamp % 86400]

\* a is at or after b
AtOrAfter(a, b) ==
    \/ a.year > b.year
    \/ a.year = b.year /\ a.month > b.month
    \/ a.year = b.year /\ a.month = b.month /\ a.day > b.day
    \/ a.year = b.year /\ a.month = b.month /\ a.day = b.day /\ a.second >= b.second

RebateCall == last.op \in {"process_fee_rebate", "execute_fast_trade"}

\* the fee and the realized PnL of the call itself
CallFee ==
    IF Called("execute_fast_trade")
    THEN FeeOf(last.args.amount, last.args.price, pre.maker_fee) ELSE 0

CallPnl ==
    IF Called("execute_fast_trade") /\ last.args.side = "sell_long"
    THEN Min(last.args.amount, pre.long_position)
           * (last.args.price - pre.long_entry_price)
    ELSE 0

\* the cycle fees process_fee_rebate finds, and what it added to the balance
CycleFees == pre.current_cycle_fees + CallFee

Paid == ex.balance - (pre.balance - CallFee + CallPnl)

Anchored == pre.last_payout_date # None

PayoutDue ==
    AtOrAfter(NowOf(last.args.timestamp), MonthAfter(pre.last_payout_date))

\* the timestamp is at most Unix 2147483647
Representable == last.args.timestamp <= 2147483647 - TimeOrigin

\* C16, as stated: with the rebate enabled and the cycle anchored, a
\* process_fee_rebate call with now >= anchor + 1 month and cycle fees F > 0
\* adds exactly 0.30 * F to the balance, sets the cycle fees to 0 and moves
\* the anchor on by exactly one month; a call with now < anchor + 1 month
\* changes none of the three.
C16_PayoutWhenDue ==
    (RebateCall /\ Anchored) =>
        IF PayoutDue
        THEN CycleFees > 0 =>
                /\ 10 * Paid = 3 * CycleFees
                /\ ex.current_cycle_fees = 0
                /\ ex.last_payout_date = MonthAfter(pre.last_payout_date)
        ELSE /\ Paid = 0
             /\ ex.current_cycle_fees = CycleFees
             /\ ex.last_payout_date = pre.last_payout_date

\* C16, amended: the same for a call whose timestamp is at most 2147483647.
C16_PayoutWhenDueAndRepresentable ==
    (RebateCall /\ Anchored) =>
        IF PayoutDue
        THEN (CycleFees > 0 /\ Representable) =>
                /\ 10 * Paid = 3 * CycleFees
                /\ ex.current_cycle_fees = 0
                /\ ex.last_payout_date = MonthAfter(pre.last_payout_date)
        ELSE /\ Paid = 0
             /\ ex.current_cycle_fees = CycleFees
             /\ ex.last_payout_date = pre.last_payout_date

\* a fill at the very instant anchor + 1 month that pays the rebate on the
\* fees of the cycle, its own fee included
C16_Witness ==
    /\ Called("execute_fast_trade") /\ Anchored
    /\ NowOf(last.args.timestamp) = MonthAfter(pre.last_payout_date)
    /\ pre.current_cycle_fees > 0 /\ CallFee > 0
    /\ Paid > 0
    /\ ex.current_cycle_fees = 0

\* the call is the first of the run
FirstCall == RebateCall /\ prev.op = "init"

\* the payout day of the month of the call at 00:00 if the call is at or
\* after it, the same day of the month before otherwise
FirstAnchor ==
    LET now == NowOf(last.args.timestamp)
        this_month == [now EXCEPT !.day = RebatePayoutDay, !.second = 0]
    IN  IF AtOrAfter(now, this_month) THEN this_month ELSE MonthBefore(this_month)

\* C17, as stated: the first process_fee_rebate invocation of a run sets
\* the anchor to the payout day of the current month at 00:00 when now is
\* at or after that instant and to the same day of the previous month
\* otherwise, and pays nothing: balance and cycle fees are as the caller
\* left them.
C17_FirstCallAnchors ==
    FirstCall =>
        /\ ex.last_payout_date = FirstAnchor
        /\ Paid = 0
        /\ ex.current_cycle_fees = CycleFees

\* C17, amended: the same for a first invocation whose timestamp is at most
\* 2147483647.
C17_FirstRepresentableCallAnchors ==
    (FirstCall /\ Representable) =>
        /\ ex.last_payout_date = FirstAnchor
        /\ Paid = 0
        /\ ex.current_cycle_fees = CycleFees

\* a first fill in the last second before the payout day: its fee stays in
\* the cycle and the anchor is the payout day of the month before, in the
\* year before
C17_Witness ==
    /\ FirstCall /\ Called("execute_fast_trade")
    /\ CallFee > 0
    /\ ex.current_cycle_fees = CallFee
    /\ last.args.timestamp = 18 * 86400 - 1
    /\ ex.last_payout_date = [year |-> 2020, month |-> 12, day |-> 19, second |-> 0]

\* what the fill of the last call gives on the same exchange without the
\* fee rebate
FillAlone ==
    execute_fast_trade([pre EXCEPT !.use_fee_rebate = FALSE], last.args.side,
                       last.args.amount, last.args.price, last.args.timestamp)

\* C24: a fill with a timestamp greater than 2147483647 is executed in full:
\* the fee is charged, the PnL realized, the position updated and the trade
\* record appended as for any timestamp; the fee is added to the cycle fees,
\* the anchor is unchanged and nothing is paid out.
C24_FillBeyondBound ==
    (Called("execute_fast_trade") /\ ~Representable) =>
        /\ ex.balance = pre.balance - CallFee + CallPnl
        /\ ex.total_fees_paid = pre.total_fees_paid + CallFee
        /\ ex.long_position = FillAlone.long_position
        /\ ex.long_entry_price = FillAlone.long_entry_price
        /\ ex.short_position = FillAlone.short_position
        /\ ex.short_entry_price = FillAlone.short_entry_price
        /\ Len(ex.trade_history) = Len(pre.trade_history) + 1
        /\ ex.trade_history[Len(ex.trade_history)] =
              [timestamp |-> last.args.timestamp, side |-> last.args.side,
               amount |-> last.args.amount, price |-> last.args.price,
               fee |-> CallFee, pnl |-> CallPnl, leverage |-> ex.current_leverage]
        /\ ex.current_cycle_fees = pre.current_cycle_fees + CallFee
        /\ ex.last_payout_date = pre.last_payout_date
        /\ Paid = 0

\* a closing fill on 2038-02-19 with a fee, on an exchange anchored in 2021
\* or before with fees in the cycle
C24_Witness ==
    /\ Called("execute_fast_trade") /\ ~Representable
    /\ Anchored /\ PayoutDue
    /\ pre.current_cycle_fees > 0 /\ CallFee > 0
    /\ last.args.side = "sell_long"
    /\ pre.long_position > 0 /\ ex.long_position < pre.long_position
    /\ ex.current_cycle_fees > pre.current_cycle_fees

RECURSIVE SumFee(_)
\* sum of fee over trade records
SumFee(records) ==
    IF records = <<>> THEN 0 ELSE Head(records).fee + SumFee(Tail(records))

RECURSIVE SumPnl(_)
\* sum of pnl over trade records
SumPnl(records) ==
    IF records = <<>> THEN 0 ELSE Head(records).pnl + SumPnl(Tail(records))

\* no liquidation and no market flatten has closed a position so far
Unflattened == ~run.flattened /\ ex.liquidation_events = <<>>

\* C34: in every state reached before any liquidation or market flatten,
\* balance = initial balance - sum of fee over the trade records + sum of
\* pnl over the trade records + sum of the rebates credited, and
\* total_fees_paid is the sum of fee over the trade records.
C34_LedgerConservation ==
    Unflattened =>
        /\ ex.balance = InitialBalance * DecScale - SumFee(ex.trade_history)
                          + SumPnl(ex.trade_history) + run.rebates
        /\ ex.total_fees_paid = SumFee(ex.trade_history)

\* fills with fees and a realized PnL, and a rebate credited, before any
\* liquidation or flatten
C34_Witness ==
    /\ Unflattened
    /\ SumFee(ex.trade_history) > 0
    /\ SumPnl(ex.trade_history) > 0
    /\ run.rebates > 0
    /\ Len(ex.trade_history) >= 3

\* C37: with the rebate enabled from construction, in every state the
\* rebates credited to the balance are rebate_rate * (total_fees_paid -
\* current_cycle_fees), across fills, liquidations and market flattens: a
\* fee leaves the cycle fees only by being paid out, and once.
C37_RebateAccounting ==
    /\ run.rebates
          = MulRate(ex.total_fees_paid - ex.current_cycle_fees, RebateRate)
    /\ ex.current_cycle_fees >= 0
    /\ ex.current_cycle_fees <= ex.total_fees_paid

\* a rebate has been credited on the fees of a market flatten or of a
\* liquidation, and fees of the next cycle are waiting
C37_Witness ==
    /\ run.flattened
    /\ run.rebates > 0
    /\ ex.current_cycle_fees > 0
    /\ ex.total_fees_paid > ex.current_cycle_fees

\* a liquidation has closed a position with fees in the cycle
C37_Liquidated ==
    /\ ex.liquidation_events # <<>>
    /\ ex.total_fees_paid > 0

----------------------------------------------------------------------------
(* Properties of SpecConfig *)

\* C22: a configuration with a non-positive leverage is rejected when the
\* exchange and the strategy are constructed: no call of a sub-point is made
\* under it and no arithmetic failure occurs in the run.
C22_BadConfigurationRejected ==
    run.leverage <= 0 => last.op = "init" /\ ~run.raised

\* a run under leverage 0 that raised the division by zero in its first
\* generate_orders
C22_Raised ==
    run.leverage = 0 /\ run.raised /\ last.op = "generate_orders" /\ run.n = 0

\* (entry - price) / entry >= 5% for a long, (price - entry) / entry >= 5%
\* for a short, the side open
LossReached(quantity, loss, entry) ==
    /\ quantity > 0
    /\ loss >= (entry \div 20) + (IF entry % 20 = 0 THEN 0 ELSE 1)

LongLossReached(e, price) ==
    LossReached(e.long_position, e.long_entry_price - price, e.long_entry_price)

ShortLossReached(e, price) ==
    LossReached(e.short_position, price - e.short_entry_price, e.short_entry_price)

\* C29: with the position stop-loss enabled, a decision cycle at a sub-point
\* where a side is open with a loss ratio >= the configured fraction returns
\* a closing order for the entire quantity of that side at the current
\* price, and the match of the same sub-point, whose high and low are
\* around the price, fills it: the side is flat after it.
C29_StopLossCloses ==
    [][/\ ( /\ last'.op = "generate_orders" /\ ~run'.raised
            /\ run.enable_position_stop_loss ) =>
            /\ LongLossReached(ex, ex.current_price) =>
                  \E i \in 1..Len(last'.args.orders) :
                      last'.args.orders[i] =
                          resting_order("sell_long", ex.long_position, ex.current_price)
            /\ ShortLossReached(ex, ex.current_price) =>
                  \E i \in 1..Len(last'.args.orders) :
                      last'.args.orders[i] =
                          resting_order("buy_short", ex.short_position, ex.current_price)
       /\ ( /\ last.op = "generate_orders" /\ last'.op = "fast_order_matching"
            /\ run.enable_position_stop_loss ) =>
            /\ LongLossReached(pre, last.args.price) => ex'.long_position = 0
            /\ ShortLossReached(pre, last.args.price) => ex'.short_position = 0
      ]_vars

\* a short closed by its stop-loss order in the match of the sub-point
\* that emitted it
C29_Witness ==
    /\ Called("fast_order_matching") /\ prev.op = "generate_orders"
    /\ run.enable_position_stop_loss
    /\ ShortLossReached(prev.pre, prev.args.price)
    /\ prev.args.orders =
          <<resting_order("buy_short", prev.pre.short_position, prev.args.price)>>
    /\ pre.short_position > 0 /\ ex.short_position = 0
    /\ Len(ex.trade_history) > Len(pre.trade_history)

----------------------------------------------------------------------------
(* Properties of SpecStrategy.  A decision cycle is a step to a state     *)
(* whose last call is generate_orders; the exchange of that state is the   *)
(* one the call was made on.                                               *)

StopLossOrders ==
    check_position_stop_loss(pre, run.enable_position_stop_loss, last.args.price)

RebalanceOrders == check_position_balance(pre, last.args.price)

\* C25: generate_orders returns exactly the stop-loss orders if there are
\* any, otherwise exactly the rebalancing orders if there are any, otherwise
\* nothing if the refresh interval has not elapsed, and quotes only
\* otherwise; the first three branches leave the last-quote timestamp as it
\* is, whatever the time since the last quoting pass, and the timestamp is
\* the only state of the strategy.
C25_PriorityChain ==
    [][last'.op = "generate_orders" =>
          LET orders == last'.args.orders
              timestamp == last'.args.timestamp
              stop_loss_orders ==
                  check_position_stop_loss(ex, run.enable_position_stop_loss,
                                           last'.args.price)
              balance_orders == check_position_balance(ex, last'.args.price)
              elapsed == timestamp - strategy.last_order_time >= OrderRefreshTime
          IN  /\ DOMAIN strategy' = {"last_order_time"}
              /\ IF stop_loss_orders # <<>>
                 THEN orders = stop_loss_orders /\ strategy' = strategy
                 ELSE IF balance_orders # <<>>
                 THEN orders = balance_orders /\ strategy' = strategy
                 ELSE IF ~elapsed
                 THEN orders = <<>> /\ strategy' = strategy
                 ELSE /\ orders \in {<<>>, quote_orders(ex, last'.args.price).orders}
                      /\ strategy'.last_order_time
                            \in {strategy.last_order_time, timestamp}]_vars

\* stop-loss orders returned less than the refresh interval after a
\* quoting pass
C25_Witness ==
    /\ Called("generate_orders")
    /\ StopLossOrders # <<>> /\ last.args.orders = StopLossOrders
    /\ strategy.last_order_time > UnixZero
    /\ last.args.timestamp - strategy.last_order_time < OrderRefreshTime

\* C26: a decision cycle that sets the last-quote timestamp sets it to its
\* own timestamp, at least the refresh interval after the timestamp it
\* replaces; a cycle closer than that to the last quoting pass, with no
\* stop-loss and no rebalancing orders, returns no orders and leaves the
\* timestamp.
C26_Throttle ==
    [][last'.op = "generate_orders" =>
          LET timestamp == last'.args.timestamp
              stop_loss_orders ==
                  check_position_stop_loss(ex, run.enable_position_stop_loss,
                                           last'.args.price)
              balance_orders == check_position_balance(ex, last'.args.price)
          IN  /\ timestamp >= run.sub_timestamp
              /\ strategy'.last_order_time # strategy.last_order_time =>
                    /\ strategy'.last_order_time = timestamp
                    /\ timestamp - strategy.last_order_time >= OrderRefreshTime
              /\ ( /\ timestamp - strategy.last_order_time < OrderRefreshTime
                   /\ stop_loss_orders = <<>>
                   /\ balance_orders = <<>> ) =>
                    /\ last'.args.orders = <<>>
                    /\ strategy'.last_order_time = strategy.last_order_time]_vars

\* a quoting pass exactly the refresh interval after the quoting pass of
\* the cycle before it
C26_Witness ==
    /\ Called("generate_orders") /\ prev.op = "generate_orders"
    /\ StopLossOrders = <<>> /\ RebalanceOrders = <<>>
    /\ prev.args.orders # <<>> /\ last.args.orders # <<>>
    /\ last.args.timestamp = prev.args.timestamp + OrderRefreshTime
    /\ strategy.last_order_time = last.args.timestamp

\* a decision cycle that gets to the quotes: no stop-loss orders, no
\* rebalancing orders, the refresh interval elapsed
QuoteBranch ==
    /\ last'.op = "generate_orders"
    /\ check_position_stop_loss(ex, run.enable_position_stop_loss,
                                last'.args.price) = <<>>
    /\ check_position_balance(ex, last'.args.price) = <<>>
    /\ last'.args.timestamp - strategy.last_order_time >= OrderRefreshTime

\* cap = min(tier bound, equity * tierMaxLeverage * riskRatio)
CapOf(e) ==
    LET t == ETH_USDC_TIERS[TierOf(GrossNotionalOf(e) \div DecScale)]
        by_equity == MulInt(MulInt(EquityOf(e), t[2]), MaxPositionValueRatio)
    IN  IF t[1] = Infinity \/ by_equity \div DecScale < t[1] THEN by_equity
        ELSE t[1] * DecScale

\* quantity * mark is below half of the cap
BelowHalfCap(e, quantity) ==
    quantity * e.current_price < (CapOf(e) \div 2) + (CapOf(e) % 2)

BidOf(e) == MulRate(e.current_price, DecScale - calculate_adaptive_spread(e))

AskOf(e) == MulRate(e.current_price, DecScale + calculate_adaptive_spread(e))

\* the margin required for the opening quote at price
RequiredMargin(e, price) ==
    DecDiv(calculate_dynamic_order_size(e, e.current_price) * price,
           EffectiveLeverageOf(e))

\* the opening quote of side at price is among orders
Opens(orders, e, side, price) ==
    \E i \in 1..Len(orders) :
        orders[i] = resting_order(side, calculate_dynamic_order_size(e, e.current_price),
                                  price)

Closes(orders, side) == \E i \in 1..Len(orders) : orders[i].side = side

\* C27: a decision cycle that gets to the quotes returns a closing quote for
\* every open side, a sell_long when the long quantity is above 0 and a
\* buy_short when the short quantity is above 0, also when the gross
\* notional exceeds the cap.
C27_ClosingQuotes ==
    [][QuoteBranch =>
          /\ ex.long_position > 0 => Closes(last'.args.orders, "sell_long")
          /\ ex.short_position > 0 => Closes(last'.args.orders, "buy_short")]_vars

\* the same for the cycles with the gross notional within the cap
C27_ClosingQuotesWithinCap ==
    [][(QuoteBranch /\ GrossNotionalOf(ex) <= CapOf(ex)) =>
          /\ ex.long_position > 0 => Closes(last'.args.orders, "sell_long")
          /\ ex.short_position > 0 => Closes(last'.args.orders, "buy_short")
          /\ strategy'.last_order_time = last'.args.timestamp]_vars

\* a cycle that got to the quotes with a long position, a positive equity
\* and the gross notional above the cap, and returned nothing
C27_NoClosingQuote ==
    /\ Called("generate_orders")
    /\ StopLossOrders = <<>> /\ RebalanceOrders = <<>>
    /\ strategy.last_order_time = UnixZero
    /\ pre.long_position > 0 /\ EquityOf(pre) > 0
    /\ GrossNotionalOf(pre) > CapOf(pre)
    /\ last.args.orders = <<>>

\* C28: in a decision cycle that gets to the quotes, the opening quote of a
\* side (buy_long at the bid, sell_short at the ask) is returned if and only
\* if the gross notional does not exceed the cap, the side's position is
\* below half of cap / price and the available margin is at least 2 times
\* the margin required for the quote, equality included.
C28_OpeningQuoteIff ==
    [][QuoteBranch =>
          LET within == GrossNotionalOf(ex) <= CapOf(ex)
              available == get_available_margin(ex)
          IN  /\ Opens(last'.args.orders, ex, "buy_long", BidOf(ex)) <=>
                    /\ within
                    /\ BelowHalfCap(ex, ex.long_position)
                    /\ available >= 2 * RequiredMargin(ex, BidOf(ex))
              /\ Opens(last'.args.orders, ex, "sell_short", AskOf(ex)) <=>
                    /\ within
                    /\ BelowHalfCap(ex, ex.short_position)
                    /\ available >= 2 * RequiredMargin(ex, AskOf(ex))]_vars

\* the same with the available margin above 2 times the required margin
C28_OpeningQuoteIffAbove ==
    [][QuoteBranch =>
          LET within == GrossNotionalOf(ex) <= CapOf(ex)
              available == get_available_margin(ex)
          IN  /\ Opens(last'.args.orders, ex, "buy_long", BidOf(ex)) <=>
                    /\ within
                    /\ BelowHalfCap(ex, ex.long_position)
                    /\ available > 2 * RequiredMargin(ex, BidOf(ex))
              /\ Opens(last'.args.orders, ex, "sell_short", AskOf(ex)) <=>
                    /\ within
                    /\ BelowHalfCap(ex, ex.short_position)
                    /\ available > 2 * RequiredMargin(ex, AskOf(ex))]_vars

\* a cycle that got to the quotes on a flat exchange whose available margin
\* is exactly 2 times the margin required for the buy_long, and returned no
\* opening quote
C28_NoQuoteAtEquality ==
    /\ Called("generate_orders")
    /\ StopLossOrders = <<>> /\ RebalanceOrders = <<>>
    /\ strategy.last_order_time = last.args.timestamp
    /\ pre.long_position = 0 /\ pre.short_position = 0
    /\ get_available_margin(pre) = 2 * RequiredMargin(pre, BidOf(pre))
    /\ last.args.orders = <<>>

\* the exchange after the one order of the last call has filled in full
AfterFill ==
    LET o == last.args.orders[1]
    IN  execute_fast_trade(pre, o.side, o.amount, o.price, last.args.timestamp)

NetOf(e) == Abs(e.long_position - e.short_position)

GrossOf(e) == e.long_position + e.short_position

\* exposure reduction is signalled, |net| / gross exceeds the maximum, and
\* no stop-loss order takes precedence
RebalanceDue ==
    /\ Called("generate_orders")
    /\ StopLossOrders = <<>>
    /\ should_reduce_exposure(pre.volatility_monitor)
    /\ GrossOf(pre) > 0
    /\ NetOf(pre) * DecScale > MaxImbalanceRatio * GrossOf(pre)

\* C30: when exposure reduction is signalled and |net| / gross exceeds the
\* maximum, one rebalancing order is returned, and once it has filled in
\* full |net| / gross is no more than the maximum (having come down to the
\* target), for every position mix.
C30_RebalancedAfterFill ==
    RebalanceDue =>
        /\ Len(last.args.orders) = 1
        /\ NetOf(AfterFill) * DecScale <= MaxImbalanceRatio * GrossOf(AfterFill)

\* what the order does bring about: one closing order on the larger side,
\* after which |net| is the target fraction of the gross position before
\* the order, to the lot
C30_NetToTargetOfGrossBefore ==
    RebalanceDue =>
        /\ Len(last.args.orders) = 1
        /\ last.args.orders[1].side =
              (IF pre.long_position > pre.short_position
               THEN "sell_long" ELSE "buy_short")
        /\ 2 * Abs(NetOf(AfterFill) * DecScale
                     - MulRate(MaxImbalanceRatio, PositionBalanceRatio) * GrossOf(pre))
              <= DecScale

\* a long of 10 lots alone, rebalanced by a sell_long of 8 lots: one side
\* only after the fill as before it
C30_OneSided ==
    /\ RebalanceDue
    /\ pre.long_position = 10 /\ pre.short_position = 0
    /\ last.args.orders = <<resting_order("sell_long", 8, last.args.price)>>
    /\ AfterFill.long_position = 2 /\ AfterFill.short_position = 0

\* an order closes the larger side of e and no more than is held of it
ClosesLargerSide(o, e) ==
    IF e.long_position > e.short_position
    THEN o.side = "sell_long" /\ o.amount <= e.long_position
    ELSE /\ e.short_position > e.long_position
         /\ o.side = "buy_short" /\ o.amount <= e.short_position

\* C39: every order check_position_balance emits closes the dominant side
\* (sell-long when the net position is positive, buy-short when it is
\* negative) with an amount no larger than the quantity held of that side;
\* in no state does it open the other side.
C39_RebalanceCloses ==
    /\ \A i \in 1..Len(check_position_balance(ex, ex.current_price)) :
          ClosesLargerSide(check_position_balance(ex, ex.current_price)[i], ex)
    /\ RebalanceDue =>
          /\ last.args.orders # <<>>
          /\ \A i \in 1..Len(last.args.orders) :
                ClosesLargerSide(last.args.orders[i], pre)

\* a decision cycle that returns a rebalancing order for a part of the
\* short side, which is the larger one
C39_Witness ==
    /\ RebalanceDue
    /\ pre.short_position > pre.long_position
    /\ last.args.orders = RebalanceOrders
    /\ Len(last.args.orders) = 1
    /\ last.args.orders[1].side = "buy_short"
    /\ last.args.orders[1].amount > 0
    /\ last.args.orders[1].amount < pre.short_position

----------------------------------------------------------------------------
(* Fills of the orchestrated run, SpecRun *)

\* the match of a sub-point at which generate_orders returned orders, which
\* were placed just before it
MatchOfPlacedOrders ==
    /\ Called("fast_order_matching")
    /\ prev.op = "generate_orders"
    /\ prev.args.orders # <<>>

\* the trade records the last call appended
NewTrades == SubSeq(ex.trade_history, Len(pre.trade_history) + 1, Len(ex.trade_history))

\* the price of the sub-point reaches the price of a fill
ReachedBy(price, trade) ==
    IF is_buy_side(trade.side) THEN price <= trade.price ELSE price >= trade.price

\* C35: an order placed at a sub-point is filled at that sub-point only if
\* the sub-point's own price reaches it (price <= order price for a buy,
\* price >= order price for a sell), never against a running high or low of
\* the candle that was reached at an earlier sub-point.
C35_NoLookBackFills ==
    MatchOfPlacedOrders =>
        \A i \in 1..Len(NewTrades) : ReachedBy(pre.current_price, NewTrades[i])

\* what the match does: an order placed at the sub-point is filled when the
\* running low (high) of the candle reaches it
C35_FilledAgainstRunningExtremes ==
    MatchOfPlacedOrders =>
        \A i \in 1..Len(NewTrades) :
            IF is_buy_side(NewTrades[i].side)
            THEN last.args.low <= NewTrades[i].price
            ELSE last.args.high >= NewTrades[i].price

\* a buy placed below the price of its sub-point is filled there, the
\* running low of the candle being from an earlier sub-point
C35_LookBackFill ==
    /\ MatchOfPlacedOrders
    /\ run.j > 1
    /\ \E i \in 1..Len(NewTrades) :
          /\ NewTrades[i].side = "buy_long"
          /\ NewTrades[i].price < pre.current_price
          /\ last.args.low < pre.current_price

RECURSIVE AfterTrades(_, _, _)
\* the exchange after the first k of the trades, executed in their order
\* on e
AfterTrades(e, trades, k) ==
    IF k = 0 THEN e
    ELSE execute_fast_trade(AfterTrades(e, trades, k - 1), trades[k].side,
                            trades[k].amount, trades[k].price, trades[k].timestamp)

\* the k-th of the trades closes a side
ClosingTrade(trades, k) == trades[k].side \in {"sell_long", "buy_short"}

\* the quantity of its side held when the k-th trade of the last call
\* executes
HeldAt(k) == PositionOf(AfterTrades(pre, NewTrades, k - 1), NewTrades[k].side)

\* C36: in the orchestrated run every closing fill (sell-long, buy-short)
\* has an amount no larger than the quantity held on its side at the moment
\* it executes, so the fill is never clipped and the quantity closed is the
\* amount of the trade record.
C36_ClosingFillsWithinHeld ==
    Called("fast_order_matching") =>
        /\ AfterTrades(pre, NewTrades, Len(NewTrades)).long_position = ex.long_position
        /\ AfterTrades(pre, NewTrades, Len(NewTrades)).short_position = ex.short_position
        /\ \A k \in 1..Len(NewTrades) :
              ClosingTrade(NewTrades, k) =>
                  /\ NewTrades[k].amount <= HeldAt(k)
                  /\ HeldAt(k) - PositionOf(AfterTrades(pre, NewTrades, k),
                                            NewTrades[k].side)
                        = NewTrades[k].amount

\* a match fills an opening order and then a closing order of a side that
\* is held
C36_Witness ==
    /\ Called("fast_order_matching")
    /\ Len(NewTrades) >= 2
    /\ \E k \in 1..Len(NewTrades) :
          /\ ClosingTrade(NewTrades, k)
          /\ NewTrades[k].amount > 0
          /\ HeldAt(k) >= NewTrades[k].amount

----------------------------------------------------------------------------
(* Conservation properties of Spec *)

\* the last call was a fill that opens or adds to a side
OpeningFill ==
    /\ Called("execute_fast_trade")
    /\ last.args.side \in {"buy_long", "sell_short"}

RECURSIVE OpenedAmount(_, _)
\* sum of the amounts of the trade records of a side
OpenedAmount(records, side) ==
    IF records = <<>> THEN 0
    ELSE (IF Head(records).side = side THEN Head(records).amount ELSE 0)
           + OpenedAmount(Tail(records), side)

\* the trade history holds opening fills only
OnlyOpeningFills(e) ==
    \A i \in 1..Len(e.trade_history) :
        e.trade_history[i].side \in {"buy_long", "sell_short"}

\* C33: every buy-long (sell-short) fill of amount a increases the long
\* (short) quantity by exactly a, on a flat side and on an open one, so
\* after opening fills only the held quantity of a side is the sum of the
\* amounts of its trade records.
C33_OpeningFillAddsAmount ==
    /\ OpeningFill =>
          PositionOf(ex, last.args.side)
              = PositionOf(pre, last.args.side) + last.args.amount
    /\ OnlyOpeningFills(ex) =>
          /\ ex.long_position = OpenedAmount(ex.trade_history, "buy_long")
          /\ ex.short_position = OpenedAmount(ex.trade_history, "sell_short")

\* what the fills do: the amount is added once on a flat side and twice
\* on an open one
C33_AddsOnceOrTwice ==
    OpeningFill =>
        PositionOf(ex, last.args.side)
            = PositionOf(pre, last.args.side)
                + (IF PositionOf(pre, last.args.side) = 0
                   THEN last.args.amount ELSE 2 * last.args.amount)

\* an opening fill on an open side
C33_AddedToOpenSide ==
    /\ OpeningFill
    /\ PositionOf(pre, last.args.side) > 0
    /\ last.args.amount > 0

----------------------------------------------------------------------------
(* Properties of SpecAccount *)

\* the quantity returned by the call of calculate_dynamic_order_size
SizedQuantity == last.ret

\* equity / 1000 / price, in lots
FloorLots(e, price) == DecDiv(DecDiv(EquityOf(e), 1000), price)

\* equity * (1 / effectiveLeverage) / price, in lots
IdealLots(e, price) ==
    DecDiv(DecDiv(EquityOf(e), EffectiveLeverageOf(e)), price)

\* a quantity within the configured bounds and at or above the floor
InsideBounds(quantity, e, price) ==
    /\ MinOrderAmount <= quantity
    /\ quantity <= MaxOrderAmount
    /\ FloorLots(e, price) <= quantity

----------------------------------------------------------------------------
(* Properties of SpecMonitor *)

\* the monitor and the number of update_price calls it has taken
Monitor == ex.volatility_monitor

Updates == steps

\* the number of entries a history of a capacity holds after n arrivals
Held(n, capacity) == IF n < capacity THEN n ELSE capacity

\* C32: after any sequence of update_price calls the price history holds
\* at most period+1 entries, the most recent ones in arrival order, the ATR
\* history holds at most 100 values, and there is no ATR value before the
\* second update, so that the level is NORMAL and should_reduce_exposure is
\* false after no or one update.
C32_BoundedHistories ==
    LET held == Held(Updates, Monitor.atr_period + 1)
    IN  /\ Len(Monitor.price_history) = held
        /\ \A i \in 1..held :
              Monitor.price_history[i]
                  = MonitorCandle(run.series, Updates - held + i)
        /\ Len(Monitor.atr_values) <= 100
        /\ Updates < 2 =>
              /\ Monitor.atr_values = <<>>
              /\ get_volatility_level(Monitor) = "NORMAL"
              /\ ~should_reduce_exposure(Monitor)

\* a full price history has evicted entries and the ATR history is full
\* after more than 100 values
C32_Witness ==
    /\ Monitor.atr_period = 2
    /\ run.series = "swinging"
    /\ Updates > 101
    /\ Len(Monitor.price_history) = 3
    /\ Len(Monitor.atr_values) = 100

\* the account before the call holds the same quantity on both sides
Hedged(e) == e.long_position = e.short_position /\ e.long_position > 0

\* C38: with longQty = shortQty > 0, check_and_handle_liquidation returns
\* False at every mark price and every balance: the net notional and with it
\* the maintenance margin are 0.
C38_HedgedNeverLiquidated ==
    (Called("check_and_handle_liquidation") /\ Hedged(pre)) =>
        /\ NetNotionalOf(pre) = 0
        /\ MaintenanceMarginOf(pre) = 0
        /\ last.ret = FALSE
        /\ ex = pre

\* a check on a hedged account whose equity is positive and no more than
\* half a percent of its gross notional
C38_Witness ==
    /\ Called("check_and_handle_liquidation") /\ Hedged(pre)
    /\ EquityOf(pre) > 0
    /\ EquityOf(pre) <= MulRate(GrossNotionalOf(pre), 50)
    /\ last.ret = FALSE

\* a check on a hedged account whose equity is not positive
C38_NoEquity ==
    /\ Called("check_and_handle_liquidation") /\ Hedged(pre)
    /\ EquityOf(pre) <= 0

\* a check that liquidates an account that is long only
C38_LongLiquidated ==
    /\ Called("check_and_handle_liquidation")
    /\ pre.long_position > 0 /\ pre.short_position = 0
    /\ last.ret = TRUE

----------------------------------------------------------------------------
(* Decision cycles under a volatility that stays high, SpecCycle *)

\* the decision cycle returned the rebalancing orders
RebalanceSelected ==
    /\ Called("generate_orders")
    /\ StopLossOrders = <<>>
    /\ RebalanceOrders # <<>>
    /\ last.args.orders = RebalanceOrders

\* the decision cycle got past the stop-loss and the rebalancing branch, to
\* the throttle and the quotes behind it
ThrottleOrQuoteReached ==
    /\ Called("generate_orders")
    /\ StopLossOrders = <<>>
    /\ RebalanceOrders = <<>>

\* the match of a sub-point whose decision cycle returned the rebalancing
\* orders, and all of them have filled
RebalanceFilled ==
    /\ Called("fast_order_matching")
    /\ prev.op = "generate_orders"
    /\ prev.args.orders # <<>>
    /\ prev.args.orders = check_position_balance(prev.pre, prev.args.price)
    /\ last.filled = Len(prev.args.orders)
    /\ ex.active_buy_orders = <<>> /\ ex.active_sell_orders = <<>>

ImbalanceWithinMax(e) == NetOf(e) * DecScale <= MaxImbalanceRatio * GrossOf(e)

Liquidated == Called("check_and_handle_liquidation") /\ last.ret

WithinMaxAfterFill == ImbalanceWithinMax(ex)

FirstCycleRebalances == RebalanceSelected /\ run.n = 0

\* a cycle on an open position, balanced to within the maximum, reaches the
\* throttle and the quotes
QuotingOnOpenPosition ==
    /\ ThrottleOrQuoteReached
    /\ GrossOf(pre) > 0
    /\ ImbalanceWithinMax(pre)

\* C40: with the volatility staying at HIGH or EXTREME and a position open,
\* rebalancing does not starve quoting: once the rebalancing orders of a
\* cycle have filled the imbalance is within the configured maximum, and a
\* rebalancing cycle is followed, later in the run, by a cycle on the open
\* position that reaches the throttle and the quotes.
C40_RebalancingDoesNotStarveQuoting ==
    /\ [](RebalanceFilled => WithinMaxAfterFill)
    /\ (FirstCycleRebalances ~> (Liquidated \/ QuotingOnOpenPosition))

\* the rebalancing order of a long of 10 has filled and has left a long of
\* 2, with which |net| / gross is 1 as before
C40_StillOneSided ==
    /\ RebalanceFilled
    /\ pre.long_position = 10 /\ pre.short_position = 0
    /\ ex.long_position = 2 /\ ex.short_position = 0
    /\ ~ImbalanceWithinMax(ex)

\* the rebalancing branch has been selected in three cycles in a row, from
\* the first one of the run on, and the third has closed what was left
C40_RebalancedUntilClosed ==
    /\ RebalanceFilled
    /\ run.n = 3 /\ run.rebalanced = 3
    /\ GrossOf(ex) = 0

\* a position on both sides: two rebalancing cycles, then a cycle that
\* reaches the throttle and the quotes with the position open
C40_QuotingResumed ==
    /\ ThrottleOrQuoteReached
    /\ run.n = 2 /\ run.rebalanced = 0
    /\ pre.long_position > 0 /\ pre.short_position > 0
    /\ ImbalanceWithinMax(pre)

============================================================================
